---- MODULE Spec2Model ----
(***************************************************************************)
(* Model of the TreasureHunt contract of huaigu/treasure-hunt-demo.        *)
(*                                                                         *)
(* The repository holds two versions of the contract:                      *)
(*   "max"    packages/fhevm-hardhat-template/contracts/TreasureHunt.sol   *)
(*            (secret drawn with FHE.randEuint8(64), |a-b| computed as     *)
(*            FHE.max(FHE.sub(a,b), FHE.sub(b,a)));                        *)
(*   "select" the contract in src/unnamed/part_002, lines 230-372          *)
(*            (secret drawn with FHE.rem(FHE.randEuint8(), 8), |a-b|       *)
(*            computed with FHE.gt / FHE.select, plus guessSimple).        *)
(* The variable `variant` says which one is deployed.                      *)
(*                                                                         *)
(* The client is the React hook useTreasureHunt of src/unnamed/part_000:   *)
(* `hook` holds its useState cells, `rendered` the values the closures of  *)
(* the latest render captured (guards and captured arguments read          *)
(* `rendered`, setters write `hook`), and every await of a handler is a    *)
(* step of its own.  FhevmDecryptionSignature.loadOrSign and               *)
(* instance.userDecrypt belong to the package @fhevm/react, whose code is  *)
(* not among the sources: they follow the protocol's description.          *)
(*                                                                         *)
(* An encrypted handle (euint8) is a natural number: 0 is the              *)
(* uninitialised all-zero handle, h >= 1 is the h-th handle the contract   *)
(* stored, and ciphertexts[h] is the 8-bit value it encrypts.  The         *)
(* handles of intermediate results (guessX, diffX1, condX, zero, ...) are  *)
(* never stored nor granted persistently, so only their values appear.     *)
(* `allowed` records the persistent grants the contract makes (FHE.allow,  *)
(* FHE.allowThis); the capability's own check that the contract may use an *)
(* operand handle is not modelled: an operation on stored handles yields   *)
(* its arithmetic result.  Every successful guess yields a fresh handle,   *)
(* as each call imports freshly encrypted inputs.                          *)
(***************************************************************************)
EXTENDS Integers, Sequences, FiniteSets, TLC

\* ------------------------------------------------------------------ bounds
MaxHandles == 4      \* handles the contract may create in a run of Spec
MaxDraw == 0         \* raw random draws of Spec are 0..MaxDraw
MaxInput == 0        \* cleartext guess inputs of Spec are 0..MaxInput
GridMaxHandles == 3  \* handles the contract may create in a run of GridSpec
GridMaxDraw == 9     \* raw random draws of GridSpec are 0..GridMaxDraw
GridMaxInput == 8    \* cleartext guess inputs of GridSpec are 0..GridMaxInput
MaxTime == 1            \* the clock of DecryptSpec runs over 0..MaxTime days
MaxSignRequests == 2    \* signing requests that may reach the signer
DecryptMaxHandles == 3  \* handles the contract may create in a run of DecryptSpec
HookMaxHandles == 3     \* handles the contract may create in a run of HookSpec
OwnerMaxHandles == 3    \* handles the contract may create in a run of OwnerSpec, ResetSpec
SwitchMaxHandles == 3   \* handles the contract may create in a run of SwitchSpec
StaleMaxHandles == 4    \* handles the contract may create in a run of StaleSpec
RoundsMaxHandles == 5   \* handles the contract may create in a run of RoundsSpec
LegacyMaxHandles == 3   \* handles the contract may create in a run of LegacySpec

\* --------------------------------------------------------------- constants
GridSize == 8        \* side of the grid the players select from
Uint8Mod == 256      \* euint8 arithmetic is modulo 2^8
RandUpperBound == 64 \* upper bound passed to FHE.randEuint8 in the max version
RemDivisor == 8      \* divisor passed to FHE.rem in the select version
EmptyHandle == 0     \* the uninitialised euint8 (bytes32(0))

Owner == "owner"     \* the deployer: Ownable(msg.sender)
This == "this"       \* address(this)
Principals == {Owner, "p1"}
Variants == {"max", "select"}

ErrNotOwner == "OwnableUnauthorizedAccount"
ErrAlreadySet == "Treasure is already set!"
ErrNotReady == "Treasure has not been set yet!"
ErrNotSet == "Treasure not set yet"
ErrInvalidProof == "InvalidProof"
ErrUnauthorized == "Unauthorized"
ErrNoGuess == "No guess has been made yet"

VARIABLES
  variant,        \* which version of the contract is deployed
  isTreasureSet,  \* bool private isTreasureSet
  secretX,        \* euint8 private secretX (a handle)
  secretY,        \* euint8 private secretY (a handle)
  userDistances,  \* mapping(address => euint8) public userDistances
  ciphertexts,    \* the value behind each handle the contract stored
  allowed,        \* persistent permissions: pairs <<handle, address>>
  events,         \* the events emitted so far, oldest first
  lastCall        \* the outcome of the latest call

vars == <<variant, isTreasureSet, secretX, secretY, userDistances,
          ciphertexts, allowed, events, lastCall>>

contractState == <<isTreasureSet, secretX, secretY, userDistances,
                   ciphertexts, allowed, events>>

\* ------------------------------------------------ encrypted arithmetic
FHE_sub(a, b) == (a - b + Uint8Mod) % Uint8Mod
FHE_add(a, b) == (a + b) % Uint8Mod
FHE_max(a, b) == IF a >= b THEN a ELSE b
FHE_gt(a, b) == a > b
FHE_select(c, a, b) == IF c THEN a ELSE b
FHE_rem(a, n) == a % n
FHE_randEuint8(r) == r % Uint8Mod
FHE_randEuint8Bounded(r, upperBound) == r % upperBound

\* The value createTreasure stores for one raw random draw r.
secretOfMax(r) == FHE_randEuint8Bounded(r, RandUpperBound)
secretOfSelect(r) == FHE_rem(FHE_randEuint8(r), RemDivisor)
secretOf(v, r) == IF v = "max" THEN secretOfMax(r) ELSE secretOfSelect(r)

\* The value guess computes from the imported inputs and the secret.
absDiffMax(g, s) == FHE_max(FHE_sub(g, s), FHE_sub(s, g))
distanceMax(x, y, sx, sy) == FHE_add(absDiffMax(x, sx), absDiffMax(y, sy))

\* (mutant) the two subtraction orders swapped in the select
absDiffSelectSwapped(g, s) == FHE_select(FHE_gt(g, s), FHE_sub(s, g), FHE_sub(g, s))
absDiffSelect(g, s) == FHE_select(FHE_gt(g, s), FHE_sub(g, s), FHE_sub(s, g))
\* The operand pairs of the four subtractions guess computes, both orders
\* of each axis, and of the two whose result the select keeps.
subtractionsSelect(x, y, sx, sy) ==
  LET guessX == FHE_rem(x, RemDivisor)
      guessY == FHE_rem(y, RemDivisor)
  IN  {<<guessX, sx>>, <<sx, guessX>>, <<guessY, sy>>, <<sy, guessY>>}
selectedSubtractions(x, y, sx, sy) ==
  LET guessX == FHE_rem(x, RemDivisor)
      guessY == FHE_rem(y, RemDivisor)
  IN  {FHE_select(FHE_gt(guessX, sx), <<guessX, sx>>, <<sx, guessX>>),
       FHE_select(FHE_gt(guessY, sy), <<guessY, sy>>, <<sy, guessY>>)}

\* (mutant) guess without the reduction of its inputs
distanceSelectUnreduced(x, y, sx, sy) ==
  FHE_add(absDiffSelect(x, sx), absDiffSelect(y, sy))
distanceSelect(x, y, sx, sy) ==
  LET guessX == FHE_rem(x, RemDivisor)
      guessY == FHE_rem(y, RemDivisor)
  IN  FHE_add(absDiffSelect(guessX, sx), absDiffSelect(guessY, sy))

distanceOf(v, x, y, sx, sy) ==
  IF v = "max" THEN distanceMax(x, y, sx, sy) ELSE distanceSelect(x, y, sx, sy)

\* ------------------------------------------------------------- helpers
NewHandle == Len(ciphertexts) + 1
\* The capability reads an uninitialised handle as an encryption of 0.
Value(h) == IF h = EmptyHandle THEN 0 ELSE ciphertexts[h]
\* The record of one call: who called what with which arguments, the error
\* it reverted with ("" when it succeeded) and what it returned.
Outcome(op, sender, args, err, ret) ==
  [op |-> op, sender |-> sender, args |-> args, err |-> err, ret |-> ret]
\* A revert undoes every effect of the call.
Reverts(op, sender, args, err) ==
  /\ lastCall' = Outcome(op, sender, args, err, <<>>)
  /\ UNCHANGED <<variant, contractState>>
\* A view returns without touching storage.
Returns(op, sender, args, ret) ==
  /\ lastCall' = Outcome(op, sender, args, "", ret)
  /\ UNCHANGED <<variant, contractState>>

\* ------------------------------------------------------------ the client
\* The hook useTreasureHunt of src/unnamed/part_000, mounted by the page of
\* src/unnamed/part_001, and the decryption-signature protocol it calls.
\* The wallet connects on the chain the contract is deployed on: chainId,
\* the read-only provider, the signer and the FHEVM instance become defined
\* together, so contract, contractWithSigner, isDeployed and instance are
\* all derived from ethersSigner.
None == "none"            \* no signer connected (ethersSigner undefined)
Undefined == -1           \* encryptedDistance / decryptedDistance undefined
Elsewhere == "elsewhere"  \* an address that is not the contract's
HandleHexDigits == 64     \* userDistances returns a bytes32: 64 hex digits
SentinelHexDigits == 40   \* the literal the hook compares it with: 40 digits
validDurationDays == 1    \* validity of a decryption signature, in days
sameChain == TRUE
sameSigner == TRUE

ErrExpired == "Expired"
ErrScopeMismatch == "ScopeMismatch"

MsgConnect == "Connect wallet to start playing"
MsgLoading == "Loading game state..."
MsgCreateFirst == "Create treasure to start the game"
MsgWaiting == "Waiting for treasure to be created"
MsgClickDecrypt == "Click 'Decrypt Distance' to see how close you are"
MsgClickGrid == "Click on the grid to make your guess"
MsgRefreshError == "Error refreshing game state"
MsgRefreshing == "Refreshing game state..."
MsgCreating == "Creating treasure..."
MsgSubmitting == "Submitting encrypted guess..."
MsgSubmitted == "Transaction submitted, waiting for confirmation..."
MsgCreated == "Treasure created successfully!"
MsgCreateError == "Error creating treasure"
MsgGuessed == "Guess submitted successfully! Click 'Decrypt Distance' to see the result."
MsgGuessError == "Error making guess"
MsgDecrypting == "Decrypting distance..."
MsgNoSignature == "Unable to build FHEVM decryption signature"
MsgUserDecrypt == "Call FHEVM userDecrypt..."
MsgDecryptError == "Error decrypting distance"

\* The round the client specifications play: the draws that make the secret
\* (3, 4), and the cell (0, 0) the players select.
ScenarioDraws == {<<3, 4>>}
ScenarioGuesses == {<<0, 0>>}
\* The rounds of RoundsSpec: the draws that make the secret (0, 0) or
\* (3, 3), and the cells the players select.
RoundDraws == {<<0, 0>>, <<3, 3>>}
RoundGuesses == {<<0, 0>>, <<7, 7>>}
\* Two cells at different distances from the secret.
StaleGuesses == {<<0, 0>>, <<3, 4>>}

WriteCalls == {"createTreasure", "guess"}
\* resetGame has no in-flight flag: a second invocation can start while the
\* first is in flight.
ResetCalls == {"resetGame", "resetGameAgain"}
RefreshCalls == {"auto", "manual"} \cup WriteCalls \cup ResetCalls
Capabilities == {"canCreateTreasure", "canMakeGuess", "canDecrypt", "canRefresh"}
MsgResetting == "Resetting game..."
MsgReset == "Game reset successfully!"
MsgResetError == "Error resetting game"
DecryptCalls == {"first", "second"}

VARIABLES
  now,              \* the clock, in days
  signatureStorage, \* fhevmDecryptionSignatureStorage: requester -> signature
  handshake,        \* per requester, the signing requests awaiting the signer
  signRequests,     \* the signing requests that reached a signer so far
  hook,             \* the useState cells of the hook, and its ethersSigner
  rendered,         \* the values the closures of the latest render captured
  isRefreshingRef,  \* isRefreshingRef.current
  ownership,        \* the signers whose checkOwnership is in flight
  refresh,          \* the invocations of refreshGameState, by caller
  write,            \* the invocations of createTreasure and makeGuess
  decrypt,          \* the invocations of decryptDistance
  memo,             \* the values the useMemo capabilities hold
  reset,            \* the invocations of resetGame
  cli               \* the task treasure:decrypt-distance

clientVars == <<now, signatureStorage, handshake, signRequests, hook, rendered,
                isRefreshingRef, ownership, refresh, write, decrypt, memo,
                reset, cli>>

allVars == <<vars, clientVars>>

NoSignature ==
  [requesterId |-> None, scopeAddresses |-> {}, serial |-> 0, issuedAt |-> 0]

\* The cells a closure reads: every useState cell but the two display ones.
ClosureFields ==
  {"ethersSigner", "isTreasureReady", "isOwner", "encryptedDistance",
   "isDecrypted", "isRefreshing", "isDecrypting", "isCreatingTreasure",
   "isMakingGuess"}
snapshot(h) == [f \in ClosureFields |-> h[f]]

IdleRefresh == [pc |-> "idle", signer |-> None, value |-> 0]
IdleWrite == [pc |-> "idle", signer |-> None, x |-> 0, y |-> 0, result |-> "none"]
\* The task before fhevm.userDecryptEuint has answered.
IdleCli == [clearDistance |-> Undefined, representation |-> "number", printed |-> None]
IdleReset == [pc |-> "idle", signer |-> None, result |-> "none"]
IdleDecrypt == [pc |-> "idle", requester |-> None, handle |-> Undefined,
                sig |-> NoSignature]

\* The hook as mounted, before a wallet is connected.
ClientInit ==
  /\ now = 0
  /\ signatureStorage = [p \in Principals |-> NoSignature]
  /\ handshake = [p \in Principals |-> 0]
  /\ signRequests = 0
  /\ hook = [ethersSigner |-> None, isTreasureReady |-> "undefined",
             isOwner |-> FALSE, encryptedDistance |-> Undefined,
             decryptedDistance |-> Undefined, isDecrypted |-> FALSE,
             isRefreshing |-> FALSE, isDecrypting |-> FALSE,
             isCreatingTreasure |-> FALSE, isMakingGuess |-> FALSE,
             message |-> MsgConnect]
  /\ rendered = snapshot(hook)
  /\ isRefreshingRef = FALSE
  /\ ownership = {}
  /\ refresh = [k \in RefreshCalls |-> IdleRefresh]
  /\ write = [k \in WriteCalls |-> IdleWrite]
  /\ decrypt = [d \in DecryptCalls |-> IdleDecrypt]
  /\ memo = [c \in Capabilities |-> FALSE]   \* no instance, no contract
  /\ reset = [i \in ResetCalls |-> IdleReset]
  /\ cli = IdleCli

Init ==
  /\ ClientInit
  /\ variant \in Variants
  /\ isTreasureSet = FALSE
  /\ secretX = EmptyHandle
  /\ secretY = EmptyHandle
  /\ userDistances = [p \in Principals |-> EmptyHandle]
  /\ ciphertexts = <<>>
  /\ allowed = {}
  /\ events = <<>>
  /\ lastCall = Outcome("constructor", Owner, <<>>, "", <<>>)

\* ------------------------------------------------------------- actions
\* (mutant) the onlyOwner modifier left out
onlyOwnerMissing(c) == TRUE
\* modifier onlyOwner of Ownable: the caller is the owner
onlyOwner(c) == c = Owner

\* (mutant) createTreasure without its require
createRequireMissing == TRUE
\* require(!isTreasureSet, "Treasure is already set!")
createRequire == ~isTreasureSet

\* (mutant) guess without its require
guessRequireMissing == TRUE
\* require(isTreasureSet, "Treasure has not been set yet!")
guessRequire == isTreasureSet

\* (mutant) only the proof of the X input is verified
proofsVerifyOnlyX(okX, okY) == okX
\* FHE.fromExternal(inputX, proofX) and FHE.fromExternal(inputY, proofY) both
\* accept their proof
proofsVerify(okX, okY) == okX /\ okY

\* (mutant) getTreasureLocation without its require
locationRequireMissing == TRUE
\* require(isTreasureSet, "Treasure not set yet")
locationRequire == isTreasureSet

\* (mutant) the distance is also granted to the owner
guessGrantsAlsoOwner(distance, sender) ==
  {<<distance, sender>>, <<distance, This>>, <<distance, Owner>>}
\* (mutant) the grant to the contract left out
guessGrantsNoThis(distance, sender) == {<<distance, sender>>}
\* FHE.allow(distance, msg.sender); FHE.allowThis(distance)
guessGrants(distance, sender) == {<<distance, sender>>, <<distance, This>>}

\* (mutant) the distance stored under the owner's key
guessStoreOwnerKey(sender, distance) == [userDistances EXCEPT ![Owner] = distance]
\* userDistances[msg.sender] = distance
guessStore(sender, distance) == [userDistances EXCEPT ![sender] = distance]

\* (mutant) createTreasure without its emit
CreateTreasureSilent(c, rx, ry) ==
  IF ~onlyOwner(c) THEN Reverts("createTreasure", c, <<>>, ErrNotOwner)
  ELSE IF ~createRequire THEN Reverts("createTreasure", c, <<>>, ErrAlreadySet)
  ELSE
    /\ secretX' = NewHandle
    /\ secretY' = NewHandle + 1
    /\ ciphertexts' = ciphertexts \o <<secretOf(variant, rx), secretOf(variant, ry)>>
    /\ isTreasureSet' = TRUE
    /\ lastCall' = Outcome("createTreasure", c, <<>>, "", <<>>)
    /\ UNCHANGED <<variant, userDistances, allowed, events>>

\* createTreasure() external onlyOwner; rx, ry are the two raw random draws.
CreateTreasure(c, rx, ry) ==
  IF ~onlyOwner(c) THEN Reverts("createTreasure", c, <<>>, ErrNotOwner)
  ELSE IF ~createRequire THEN Reverts("createTreasure", c, <<>>, ErrAlreadySet)
  ELSE
    /\ secretX' = NewHandle
    /\ secretY' = NewHandle + 1
    /\ ciphertexts' = ciphertexts \o <<secretOf(variant, rx), secretOf(variant, ry)>>
    /\ isTreasureSet' = TRUE
    /\ events' = Append(events, <<"TreasureCreated">>)
    /\ lastCall' = Outcome("createTreasure", c, <<>>, "", <<>>)
    /\ UNCHANGED <<variant, userDistances, allowed>>

\* (mutant) guess assigning the imported input to secretX
GuessClobbersSecret(c, x, y, okX, okY) ==
  IF ~guessRequire THEN Reverts("guess", c, <<x, y>>, ErrNotReady)
  ELSE IF ~proofsVerify(okX, okY) THEN Reverts("guess", c, <<x, y>>, ErrInvalidProof)
  ELSE
    LET distance == NewHandle + 1 IN
    /\ secretX' = NewHandle
    /\ ciphertexts' = ciphertexts \o
         <<x, distanceOf(variant, x, y, Value(secretX), Value(secretY))>>
    /\ allowed' = allowed \cup guessGrants(distance, c)
    /\ userDistances' = guessStore(c, distance)
    /\ events' = Append(events, <<"GuessSubmitted", c>>)
    /\ lastCall' = Outcome("guess", c, <<x, y>>, "", <<>>)
    /\ UNCHANGED <<variant, isTreasureSet, secretY>>

\* (mutant) guess branching on the decrypted distance to emit TreasureFound
GuessEmitsFound(c, x, y, okX, okY) ==
  IF ~guessRequire THEN Reverts("guess", c, <<x, y>>, ErrNotReady)
  ELSE IF ~proofsVerify(okX, okY) THEN Reverts("guess", c, <<x, y>>, ErrInvalidProof)
  ELSE
    LET distance == NewHandle
        d == distanceOf(variant, x, y, Value(secretX), Value(secretY))
    IN
    /\ ciphertexts' = Append(ciphertexts, d)
    /\ allowed' = allowed \cup guessGrants(distance, c)
    /\ userDistances' = guessStore(c, distance)
    /\ events' = IF d = 0
                   THEN events \o <<<<"GuessSubmitted", c>>, <<"TreasureFound", c>>>>
                   ELSE Append(events, <<"GuessSubmitted", c>>)
    /\ lastCall' = Outcome("guess", c, <<x, y>>, "", <<>>)
    /\ UNCHANGED <<variant, isTreasureSet, secretX, secretY>>

\* guess(inputX, inputY, proofX, proofY): x, y are the cleartexts behind the
\* external inputs, okX, okY say whether FHE.fromExternal accepts each proof.
Guess(c, x, y, okX, okY) ==
  IF ~guessRequire THEN Reverts("guess", c, <<x, y>>, ErrNotReady)
  ELSE IF ~proofsVerify(okX, okY) THEN Reverts("guess", c, <<x, y>>, ErrInvalidProof)
  ELSE
    LET distance == NewHandle IN
    /\ ciphertexts' = Append(ciphertexts,
                         distanceOf(variant, x, y, Value(secretX), Value(secretY)))
    /\ allowed' = allowed \cup guessGrants(distance, c)
    /\ userDistances' = guessStore(c, distance)
    /\ events' = Append(events, <<"GuessSubmitted", c>>)
    /\ lastCall' = Outcome("guess", c, <<x, y>>, "", <<>>)
    /\ UNCHANGED <<variant, isTreasureSet, secretX, secretY>>

\* guessSimple exists only in the select version: stores x + y.
GuessSimple(c, x, y, okX, okY) ==
  /\ variant = "select"
  /\ IF ~guessRequire THEN Reverts("guessSimple", c, <<x, y>>, ErrNotReady)
     ELSE IF ~proofsVerify(okX, okY) THEN Reverts("guessSimple", c, <<x, y>>, ErrInvalidProof)
     ELSE
       LET simpleResult == NewHandle IN
       /\ ciphertexts' = Append(ciphertexts, FHE_add(x, y))
       /\ allowed' = allowed \cup guessGrants(simpleResult, c)
       /\ userDistances' = guessStore(c, simpleResult)
       /\ events' = Append(events, <<"GuessSubmitted", c>>)
       /\ lastCall' = Outcome("guessSimple", c, <<x, y>>, "", <<>>)
       /\ UNCHANGED <<variant, isTreasureSet, secretX, secretY>>

\* (mutant) getMyDistance refusing to answer before the treasure is set
GetMyDistanceRequiresReady(c) ==
  IF ~isTreasureSet THEN Reverts("getMyDistance", c, <<>>, ErrNotReady)
  ELSE Returns("getMyDistance", c, <<>>, <<userDistances[c]>>)
GetMyDistance(c) == Returns("getMyDistance", c, <<>>, <<userDistances[c]>>)

IsTreasureReady(c) == Returns("isTreasureReady", c, <<>>, <<isTreasureSet>>)

\* (mutant) resetGame also clearing the owner's stored distance
ResetGameClearsDistance(c) ==
  IF ~onlyOwner(c) THEN Reverts("resetGame", c, <<>>, ErrNotOwner)
  ELSE
    /\ isTreasureSet' = FALSE
    /\ userDistances' = [userDistances EXCEPT ![c] = EmptyHandle]
    /\ lastCall' = Outcome("resetGame", c, <<>>, "", <<>>)
    /\ UNCHANGED <<variant, secretX, secretY, ciphertexts, allowed, events>>
ResetGame(c) ==
  IF ~onlyOwner(c) THEN Reverts("resetGame", c, <<>>, ErrNotOwner)
  ELSE
    /\ isTreasureSet' = FALSE
    /\ lastCall' = Outcome("resetGame", c, <<>>, "", <<>>)
    /\ UNCHANGED <<variant, secretX, secretY, userDistances, ciphertexts,
                   allowed, events>>

GetTreasureLocation(c) ==
  IF ~onlyOwner(c) THEN Reverts("getTreasureLocation", c, <<>>, ErrNotOwner)
  ELSE IF ~locationRequire THEN Reverts("getTreasureLocation", c, <<>>, ErrNotSet)
  ELSE Returns("getTreasureLocation", c, <<>>, <<secretX, secretY>>)

\* Decryption of a handle by the capability: only for a requester the handle
\* was granted to, through a contract the handle was granted to.
MayDecrypt(h, q) == <<h, q>> \in allowed /\ <<h, This>> \in allowed

\* q reads the entry of p (getMyDistance for its own, the public getter of
\* userDistances for another player's) and asks for its cleartext.
DecryptDistance(q, p) ==
  LET encryptedDistance == userDistances[p] IN
  IF encryptedDistance = EmptyHandle THEN Reverts("decrypt", q, <<p>>, ErrNoGuess)
  ELSE IF ~MayDecrypt(encryptedDistance, q) THEN Reverts("decrypt", q, <<p>>, ErrUnauthorized)
  ELSE Returns("decrypt", q, <<p>>, <<encryptedDistance, Value(encryptedDistance)>>)

\* ------------------------------------------------- client: derived values
contract(s) == s.ethersSigner # None
contractWithSigner(s) == s.ethersSigner # None
isDeployed(s) == s.ethersSigner # None
instance(s) == s.ethersSigner # None
FlagOf(b) == IF b THEN "true" ELSE "false"

canCreateTreasure(s) ==
  /\ ~s.isCreatingTreasure /\ s.isOwner /\ isDeployed(s) /\ sameChain
  /\ sameSigner /\ s.isTreasureReady # "true"
canMakeGuess(s) ==
  /\ ~s.isMakingGuess /\ isDeployed(s) /\ sameChain /\ sameSigner
  /\ s.isTreasureReady = "true" /\ instance(s)
canDecrypt(s) ==
  ~s.isDecrypting /\ s.encryptedDistance # Undefined /\ ~s.isDecrypted /\ instance(s)
canRefresh(s) == ~s.isRefreshing /\ isDeployed(s) /\ sameChain /\ contract(s)

\* The cells a capability is computed from, and the cells its useMemo
\* lists as dependencies (isDeployed, instance and contract stand for
\* ethersSigner).
capability(c, s) ==
  IF c = "canCreateTreasure" THEN canCreateTreasure(s)
  ELSE IF c = "canMakeGuess" THEN canMakeGuess(s)
  ELSE IF c = "canDecrypt" THEN canDecrypt(s)
  ELSE canRefresh(s)
\* (mutant) canRefresh memoised without isRefreshing among its dependencies
capabilityDepsStale(c) ==
  IF c = "canCreateTreasure"
    THEN {"isCreatingTreasure", "isOwner", "ethersSigner", "isTreasureReady"}
  ELSE IF c = "canMakeGuess" THEN {"isMakingGuess", "ethersSigner", "isTreasureReady"}
  ELSE IF c = "canDecrypt"
    THEN {"isDecrypting", "encryptedDistance", "isDecrypted", "ethersSigner"}
  ELSE {"ethersSigner"}
capabilityDeps(c) ==
  IF c = "canCreateTreasure"
    THEN {"isCreatingTreasure", "isOwner", "ethersSigner", "isTreasureReady"}
  ELSE IF c = "canMakeGuess" THEN {"isMakingGuess", "ethersSigner", "isTreasureReady"}
  ELSE IF c = "canDecrypt"
    THEN {"isDecrypting", "encryptedDistance", "isDecrypted", "ethersSigner"}
  ELSE {"isRefreshing", "ethersSigner"}
\* What a render leaves in the useMemo cells.
memoised(old, new) ==
  [c \in Capabilities |->
     IF \E f \in capabilityDeps(c) : new[f] # old[f]
       THEN capability(c, new) ELSE memo[c]]

\* userDistance !== "0x0000000000000000000000000000000000000000": the value
\* read is a 64-digit string, the literal has 40 digits.
matchesSentinel(userDistance) ==
  HandleHexDigits = SentinelHexDigits /\ userDistance = EmptyHandle

\* The message the message effect sets for the cells of a render.
effectMessage(h) ==
  IF h.ethersSigner = None THEN MsgConnect
  ELSE IF ~sameChain THEN "Please switch to the correct network"
  ELSE IF ~isDeployed(h) THEN "Contract not deployed on this network"
  ELSE IF h.isTreasureReady = "undefined" THEN MsgLoading
  ELSE IF h.isTreasureReady = "false"
    THEN (IF h.isOwner THEN MsgCreateFirst ELSE MsgWaiting)
  ELSE IF h.encryptedDistance # Undefined /\ ~matchesSentinel(h.encryptedDistance)
    THEN MsgClickDecrypt
  ELSE MsgClickGrid
MessageDeps == {"ethersSigner", "isTreasureReady", "isOwner", "encryptedDistance"}

\* The feedback decryptDistance shows for a decrypted distance.
feedback(decrypted) ==
  IF decrypted = 0 THEN "CONGRATULATIONS! You found the treasure!"
  ELSE IF decrypted <= 2 THEN "Very close! Distance: " \o ToString(decrypted)
  ELSE IF decrypted <= 5 THEN "Getting warmer... Distance: " \o ToString(decrypted)
  ELSE IF decrypted <= 10 THEN "Getting colder... Distance: " \o ToString(decrypted)
  ELSE "Very cold! Distance: " \o ToString(decrypted)

\* What fhevm.userDecryptEuint hands the task: a JavaScript number or a
\* bigint.  The hook converts what it receives with Number(); the task
\* compares what it receives as it is.
Representations == {"number", "bigint"}
\* a === n for a numeric literal n: never true of a bigint
strictEquals(a, representation, n) == representation = "number" /\ a = n
\* The line the task treasure:decrypt-distance prints for clearDistance.
cliFeedback(clearDistance, representation) ==
  IF strictEquals(clearDistance, representation, 0)
    THEN "CONGRATULATIONS! You found the treasure!"
  ELSE IF clearDistance <= 2 THEN "Very close! You're getting warmer!"
  ELSE IF clearDistance <= 5 THEN "Getting warmer..."
  ELSE IF clearDistance <= 10 THEN "Getting colder..."
  ELSE "Very cold! Try a different area."

inFlightFlag(k) == IF k = "createTreasure" THEN "isCreatingTreasure" ELSE "isMakingGuess"
successMessage(k) == IF k = "createTreasure" THEN MsgCreated ELSE MsgGuessed
errorMessage(k) == IF k = "createTreasure" THEN MsgCreateError ELSE MsgGuessError

\* -------------------------------------------- client: refreshGameState
\* (mutant) refreshGameState without the check of isRefreshingRef
refreshSkippedNever(signer) == signer = None
\* The early return of refreshGameState, for the signer its closure holds.
refreshSkipped(signer) == signer = None \/ isRefreshingRef

\* refreshGameState up to its first await, on top of the cells h.
refreshStarts(k, h, signer) ==
  /\ isRefreshingRef' = TRUE
  /\ hook' = [h EXCEPT !.isRefreshing = TRUE]
  /\ refresh' = [refresh EXCEPT ![k] =
                   [pc |-> "isTreasureReady", signer |-> signer, value |-> 0]]

\* The end of refreshGameState, and what its caller does when it returns.
refreshReturns(k, h) ==
  /\ isRefreshingRef' = FALSE
  /\ refresh' = [refresh EXCEPT ![k] = IdleRefresh]
  /\ IF k \in WriteCalls
       THEN /\ hook' = [h EXCEPT !.isRefreshing = FALSE, ![inFlightFlag(k)] = FALSE]
            /\ write' = [write EXCEPT ![k].pc = "idle", ![k].result = "success"]
            /\ UNCHANGED reset
       ELSE /\ hook' = [h EXCEPT !.isRefreshing = FALSE]
            /\ reset' = IF k \in ResetCalls
                          THEN [reset EXCEPT ![k] = IdleReset]
                          ELSE reset
            /\ UNCHANGED write

\* The wallet connects.
Connect(p) ==
  /\ hook.ethersSigner = None
  /\ hook' = [hook EXCEPT !.ethersSigner = p]
  /\ UNCHANGED <<vars, memo, reset, cli, now, signatureStorage, handshake, signRequests, rendered,
                 isRefreshingRef, ownership, refresh, write, decrypt>>

\* The wallet switches to another account: the hook is handed another
\* ethersSigner; its cells are left as they are.
SwitchSigner(p) ==
  /\ hook.ethersSigner \notin {None, p}
  /\ hook' = [hook EXCEPT !.ethersSigner = p]
  /\ UNCHANGED <<vars, now, signatureStorage, handshake, signRequests, rendered,
                 isRefreshingRef, ownership, refresh, write, decrypt, memo,
                 reset, cli>>

\* React renders the hook again and runs the effects whose dependencies
\* changed: checkOwnership, the automatic refresh, the message.
Render ==
  /\ snapshot(hook) # rendered
  /\ rendered' = snapshot(hook)
  /\ memo' = memoised(rendered, snapshot(hook))
  /\ LET h1 == IF \E f \in MessageDeps : hook[f] # rendered[f]
                 THEN [hook EXCEPT !.message = effectMessage(hook)]
                 ELSE hook
     IN  IF hook.ethersSigner # rendered.ethersSigner
           THEN /\ ownership' = ownership \cup {hook.ethersSigner}
                /\ IF refreshSkipped(hook.ethersSigner)
                     THEN hook' = h1 /\ UNCHANGED <<isRefreshingRef, refresh>>
                     ELSE refreshStarts("auto", h1, hook.ethersSigner)
           ELSE hook' = h1 /\ UNCHANGED <<ownership, isRefreshingRef, refresh>>
  /\ UNCHANGED <<vars, reset, cli, now, signatureStorage, handshake, signRequests,
                 write, decrypt>>

\* contract.owner() answers one of the checkOwnership calls in flight, or
\* fails.  A call compares the owner with the address of the signer its
\* effect captured; nothing cancels a call when the signer changes.
OwnershipChecked(ok) ==
  /\ \E s \in ownership :
       /\ hook' = [hook EXCEPT !.isOwner = ok /\ s = Owner]
       /\ ownership' = ownership \ {s}
  /\ UNCHANGED <<vars, memo, reset, cli, now, signatureStorage, handshake, signRequests, rendered,
                 isRefreshingRef, refresh, write, decrypt>>

\* The owner presses "Refresh Game".
ManualRefresh ==
  /\ rendered.isOwner /\ memo["canRefresh"]
  /\ ~refreshSkipped(rendered.ethersSigner)
  /\ refreshStarts("manual", hook, rendered.ethersSigner)
  /\ UNCHANGED <<vars, memo, reset, cli, now, signatureStorage, handshake, signRequests, rendered,
                 ownership, write, decrypt>>

\* The node answers the read a refresh is waiting for.
RefreshServed(k) ==
  /\ refresh[k].pc \in {"isTreasureReady", "userDistances"}
  /\ refresh' = [refresh EXCEPT ![k] =
       IF refresh[k].pc = "isTreasureReady"
         THEN [@ EXCEPT !.pc = "isTreasureReadyServed",
                        !.value = IF isTreasureSet THEN 1 ELSE 0]
         ELSE [@ EXCEPT !.pc = "userDistancesServed",
                        !.value = userDistances[refresh[k].signer]]]
  /\ UNCHANGED <<vars, memo, reset, cli, now, signatureStorage, handshake, signRequests, hook,
                 rendered, isRefreshingRef, ownership, write, decrypt>>

\* The answer of isTreasureReady() reaches the hook.
RefreshReadyDelivered(k) ==
  /\ refresh[k].pc = "isTreasureReadyServed"
  /\ LET h1 == [hook EXCEPT !.isTreasureReady = FlagOf(refresh[k].value = 1)]
     IN  IF refresh[k].signer # None
           THEN /\ hook' = h1
                /\ refresh' = [refresh EXCEPT ![k].pc = "userDistances"]
                /\ UNCHANGED <<isRefreshingRef, write, reset>>
           ELSE refreshReturns(k, h1)
  /\ UNCHANGED <<vars, memo, cli, now, signatureStorage, handshake, signRequests, rendered,
                 ownership, decrypt>>

\* The answer of userDistances(userAddress) reaches the hook.
RefreshDistanceDelivered(k) ==
  /\ refresh[k].pc = "userDistancesServed"
  /\ refreshReturns(k, [hook EXCEPT
       !.encryptedDistance = IF matchesSentinel(refresh[k].value)
                               THEN Undefined ELSE refresh[k].value,
       !.isDecrypted = FALSE])
  /\ UNCHANGED <<vars, memo, cli, now, signatureStorage, handshake, signRequests, rendered,
                 ownership, decrypt>>

\* A read of the refresh throws.
RefreshFails(k) ==
  /\ refresh[k].pc # "idle"
  /\ refreshReturns(k, [hook EXCEPT !.message = MsgRefreshError])
  /\ UNCHANGED <<vars, memo, cli, now, signatureStorage, handshake, signRequests, rendered,
                 ownership, decrypt>>

\* ------------------------- client: the hook of hooks/useTreasureHunt.tsx
\* The older hook has the same cells; its refreshGameState is a plain
\* function without isRefreshingRef, and its automatic refresh is an
\* effect of canRefresh alone.
legacyCanRefresh(s) == ~s.isRefreshing /\ isDeployed(s) /\ sameChain

\* refreshGameState up to its first await, on top of the cells h; the
\* invocation keeps the isOwner of the render that made it.
legacyRefreshStarts(h, signer, owner) ==
  /\ hook' = [h EXCEPT !.isRefreshing = TRUE, !.message = MsgRefreshing]
  /\ refresh' = [refresh EXCEPT !["auto"] =
                   [pc |-> "isTreasureReady", signer |-> signer, value |-> 0,
                    treasureReady |-> FALSE, isOwner |-> owner]]

\* setIsRefreshing(false), the last statement of refreshGameState.
legacyRefreshReturns(h) ==
  /\ hook' = [h EXCEPT !.isRefreshing = FALSE]
  /\ refresh' = [refresh EXCEPT !["auto"] = IdleRefresh]

\* React renders the older hook and runs its two effects: checkOwnership
\* when the contract or the signer changed, the automatic refresh when
\* canRefresh changed.
LegacyRender ==
  /\ snapshot(hook) # rendered
  /\ rendered' = snapshot(hook)
  /\ memo' = [memoised(rendered, snapshot(hook))
                EXCEPT !["canRefresh"] = legacyCanRefresh(hook)]
  /\ ownership' = IF /\ hook.ethersSigner # rendered.ethersSigner
                     /\ contract(hook) /\ hook.ethersSigner # None
                    THEN ownership \cup {hook.ethersSigner}
                    ELSE ownership
  /\ IF memo'["canRefresh"] # memo["canRefresh"] /\ memo'["canRefresh"] /\ contract(hook)
       THEN legacyRefreshStarts(hook, hook.ethersSigner, hook.isOwner)
       ELSE UNCHANGED <<hook, refresh>>
  /\ UNCHANGED <<vars, reset, cli, now, signatureStorage, handshake, signRequests,
                 isRefreshingRef, write, decrypt>>

\* The answer of isTreasureReady() reaches the older hook.
LegacyRefreshReadyDelivered ==
  /\ refresh["auto"].pc = "isTreasureReadyServed"
  /\ LET treasureReady == refresh["auto"].value = 1
         h1 == [hook EXCEPT !.isTreasureReady = FlagOf(treasureReady)]
     IN  IF refresh["auto"].signer # None
           THEN /\ hook' = h1
                /\ refresh' = [refresh EXCEPT !["auto"].pc = "userDistances",
                                              !["auto"].treasureReady = treasureReady]
           ELSE legacyRefreshReturns(h1)
  /\ UNCHANGED <<vars, memo, reset, cli, now, signatureStorage, handshake, signRequests,
                 rendered, isRefreshingRef, ownership, write, decrypt>>

\* The answer of userDistances(userAddress) reaches the older hook.
LegacyRefreshDistanceDelivered ==
  /\ refresh["auto"].pc = "userDistancesServed"
  /\ LET userDistance == refresh["auto"].value IN
     legacyRefreshReturns(
       IF ~matchesSentinel(userDistance)
         THEN [hook EXCEPT !.encryptedDistance = userDistance,
                           !.isDecrypted = FALSE,
                           !.message = MsgClickDecrypt]
       ELSE IF refresh["auto"].treasureReady
         THEN [hook EXCEPT !.message = MsgClickGrid]
       ELSE [hook EXCEPT !.message = IF refresh["auto"].isOwner
                                       THEN MsgCreateFirst ELSE MsgWaiting])
  /\ UNCHANGED <<vars, memo, reset, cli, now, signatureStorage, handshake, signRequests,
                 rendered, isRefreshingRef, ownership, write, decrypt>>

\* ------------------------------------- client: createTreasure, makeGuess
CreateTreasureTrigger ==
  /\ write["createTreasure"].pc = "idle"
  /\ contractWithSigner(rendered) /\ memo["canCreateTreasure"]
  /\ hook' = [hook EXCEPT !.isCreatingTreasure = TRUE, !.message = MsgCreating]
  /\ write' = [write EXCEPT !["createTreasure"] =
                 [IdleWrite EXCEPT !.pc = "submitting", !.signer = rendered.ethersSigner]]
  /\ UNCHANGED <<vars, memo, reset, cli, now, signatureStorage, handshake, signRequests, rendered,
                 isRefreshingRef, ownership, refresh, decrypt>>

MakeGuessTrigger(x, y) ==
  /\ write["guess"].pc = "idle"
  /\ contractWithSigner(rendered) /\ instance(rendered) /\ memo["canMakeGuess"]
  /\ hook' = [hook EXCEPT !.isMakingGuess = TRUE,
                !.message = "Making guess at position (" \o ToString(x) \o ", "
                              \o ToString(y) \o ")..."]
  /\ write' = [write EXCEPT !["guess"] =
                 [IdleWrite EXCEPT !.pc = "encrypting", !.signer = rendered.ethersSigner,
                                   !.x = x, !.y = y]]
  /\ UNCHANGED <<vars, memo, reset, cli, now, signatureStorage, handshake, signRequests, rendered,
                 isRefreshingRef, ownership, refresh, decrypt>>

\* The instance has encrypted the two coordinates.
GuessEncrypted ==
  /\ write["guess"].pc = "encrypting"
  /\ hook' = [hook EXCEPT !.message = MsgSubmitting]
  /\ write' = [write EXCEPT !["guess"].pc = "submitting"]
  /\ UNCHANGED <<vars, memo, reset, cli, now, signatureStorage, handshake, signRequests, rendered,
                 isRefreshingRef, ownership, refresh, decrypt>>

\* The wallet has sent the transaction.
WriteSubmitted(k) ==
  /\ write[k].pc = "submitting"
  /\ hook' = [hook EXCEPT !.message = MsgSubmitted]
  /\ write' = [write EXCEPT ![k].pc = "mining"]
  /\ UNCHANGED <<vars, memo, reset, cli, now, signatureStorage, handshake, signRequests, rendered,
                 isRefreshingRef, ownership, refresh, decrypt>>

\* (mutant) the flag cleared inside the try block, so not after a throw
WriteRejectedKeepsFlag(k) ==
  /\ write[k].pc \in {"encrypting", "submitting"}
  /\ hook' = [hook EXCEPT !.message = errorMessage(k)]
  /\ write' = [write EXCEPT ![k].pc = "idle", ![k].result = "error"]
  /\ UNCHANGED <<vars, memo, reset, cli, now, signatureStorage, handshake,
                 signRequests, rendered, isRefreshingRef, ownership, refresh,
                 decrypt>>

\* Encrypting or sending throws: the catch block, then the flag is cleared.
WriteRejected(k) ==
  /\ write[k].pc \in {"encrypting", "submitting"}
  /\ hook' = [hook EXCEPT !.message = errorMessage(k), ![inFlightFlag(k)] = FALSE]
  /\ write' = [write EXCEPT ![k].pc = "idle", ![k].result = "error"]
  /\ UNCHANGED <<vars, memo, reset, cli, now, signatureStorage, handshake, signRequests, rendered,
                 isRefreshingRef, ownership, refresh, decrypt>>

\* The transaction is mined: the contract runs the call.  One input proof
\* covers both coordinates, and the instance builds it for this contract
\* and this signer.
WriteMined(k) ==
  /\ write[k].pc = "mining"
  /\ IF k = "createTreasure"
       THEN \E r \in ScenarioDraws : CreateTreasure(write[k].signer, r[1], r[2])
       ELSE Guess(write[k].signer, write[k].x, write[k].y, TRUE, TRUE)
  /\ write' = [write EXCEPT ![k].pc = "mined",
                 ![k].result = IF lastCall'.err = "" THEN "mined" ELSE "reverted"]
  /\ UNCHANGED <<memo, reset, cli, now, signatureStorage, handshake, signRequests, hook, rendered,
                 isRefreshingRef, ownership, refresh, decrypt>>

\* tx.wait() returns or throws; on success the handler calls refreshGameState.
WriteConfirmed(k) ==
  /\ write[k].pc = "mined"
  /\ IF write[k].result = "reverted"
       THEN /\ hook' = [hook EXCEPT !.message = errorMessage(k),
                                    ![inFlightFlag(k)] = FALSE]
            /\ write' = [write EXCEPT ![k].pc = "idle", ![k].result = "error"]
            /\ UNCHANGED <<isRefreshingRef, refresh>>
       ELSE LET h1 == [hook EXCEPT !.message = successMessage(k)]
            IN  IF refreshSkipped(write[k].signer)
                  THEN /\ hook' = [h1 EXCEPT ![inFlightFlag(k)] = FALSE]
                       /\ write' = [write EXCEPT ![k].pc = "idle", ![k].result = "success"]
                       /\ UNCHANGED <<isRefreshingRef, refresh>>
                  ELSE /\ refreshStarts(k, h1, write[k].signer)
                       /\ write' = [write EXCEPT ![k].pc = "refreshing"]
  /\ UNCHANGED <<vars, memo, reset, cli, now, signatureStorage, handshake, signRequests, rendered,
                 ownership, decrypt>>

\* --------------------------------------------------- client: resetGame
\* The owner presses "Reset Game": the button is shown to the owner and
\* disabled only while isCreatingTreasure; the handler checks
\* contractWithSigner and isOwner.
ResetGameTrigger(i) ==
  /\ reset[i].pc = "idle"
  /\ i = "resetGameAgain" => reset["resetGame"].pc # "idle"
  /\ rendered.isOwner /\ ~rendered.isCreatingTreasure
  /\ contractWithSigner(rendered)
  /\ hook' = [hook EXCEPT !.message = MsgResetting]
  /\ reset' = [reset EXCEPT ![i] =
                 [IdleReset EXCEPT !.pc = "submitting", !.signer = rendered.ethersSigner]]
  /\ UNCHANGED <<vars, now, signatureStorage, handshake, signRequests, rendered,
                 isRefreshingRef, ownership, refresh, write, decrypt, memo, cli>>

\* The wallet has sent the transaction.
ResetSubmitted(i) ==
  /\ reset[i].pc = "submitting"
  /\ reset' = [reset EXCEPT ![i].pc = "mining"]
  /\ UNCHANGED <<vars, now, signatureStorage, handshake, signRequests, hook,
                 rendered, isRefreshingRef, ownership, refresh, write, decrypt,
                 memo, cli>>

\* Sending throws: the catch block.
ResetRejected(i) ==
  /\ reset[i].pc = "submitting"
  /\ hook' = [hook EXCEPT !.message = MsgResetError]
  /\ reset' = [reset EXCEPT ![i] = IdleReset]
  /\ UNCHANGED <<vars, now, signatureStorage, handshake, signRequests, rendered,
                 isRefreshingRef, ownership, refresh, write, decrypt, memo, cli>>

\* The transaction is mined: the contract runs resetGame.
ResetMined(i) ==
  /\ reset[i].pc = "mining"
  /\ ResetGame(reset[i].signer)
  /\ reset' = [reset EXCEPT ![i].pc = "mined",
                 ![i].result = IF lastCall'.err = "" THEN "mined" ELSE "reverted"]
  /\ UNCHANGED <<now, signatureStorage, handshake, signRequests, hook, rendered,
                 isRefreshingRef, ownership, refresh, write, decrypt, memo, cli>>

\* tx.wait() returns or throws; on success the handler clears the distance
\* cells and calls refreshGameState.
ResetConfirmed(i) ==
  /\ reset[i].pc = "mined"
  /\ IF reset[i].result = "reverted"
       THEN /\ hook' = [hook EXCEPT !.message = MsgResetError]
            /\ reset' = [reset EXCEPT ![i] = IdleReset]
            /\ UNCHANGED <<isRefreshingRef, refresh>>
       ELSE LET h1 == [hook EXCEPT !.message = MsgReset,
                                   !.encryptedDistance = Undefined,
                                   !.decryptedDistance = Undefined,
                                   !.isDecrypted = FALSE]
            IN  IF refreshSkipped(reset[i].signer)
                  THEN /\ hook' = h1
                       /\ reset' = [reset EXCEPT ![i] = IdleReset]
                       /\ UNCHANGED <<isRefreshingRef, refresh>>
                  ELSE /\ refreshStarts(i, h1, reset[i].signer)
                       /\ reset' = [reset EXCEPT ![i].pc = "refreshing"]
  /\ UNCHANGED <<vars, now, signatureStorage, handshake, signRequests, rendered,
                 ownership, write, decrypt, memo, cli>>

\* ------------------------------------------------- the feedback tiers
\* The task treasure:decrypt-distance: userDecryptEuint answers, the task
\* prints the feedback.
CliDecryptDistance(d, representation) ==
  /\ cli' = [clearDistance |-> d, representation |-> representation,
             printed |-> cliFeedback(d, representation)]
  /\ UNCHANGED <<vars, now, signatureStorage, handshake, signRequests, hook,
                 rendered, isRefreshingRef, ownership, refresh, write, decrypt,
                 memo, reset>>

\* decryptDistance from the answer of userDecrypt on: the distance, the
\* flag, the feedback.
ShowFeedback(d) ==
  /\ hook' = [hook EXCEPT !.decryptedDistance = d, !.isDecrypted = TRUE,
                          !.message = feedback(d)]
  /\ UNCHANGED <<vars, now, signatureStorage, handshake, signRequests, rendered,
                 isRefreshingRef, ownership, refresh, write, decrypt, memo,
                 reset, cli>>

\* --------------------------------- the decryption-signature protocol
\* A signature is valid while now < issuedAt + validDurationDays.
inWindow(signature) == now < signature.issuedAt + validDurationDays
\* (mutant) a cache that returns what it holds whatever its age
cachedValidForever(q) == signatureStorage[q].serial # 0
\* loadOrSign returns the cached signature of its key while it is valid.
cachedValid(q) == signatureStorage[q].serial # 0 /\ inWindow(signatureStorage[q])

\* (mutant) decrypt that does not look at the validity window
decryptErrorIgnoresWindow(handle, scopeAddress, signature) ==
  IF ~MayDecrypt(handle, signature.requesterId) THEN ErrUnauthorized
  ELSE IF scopeAddress \notin signature.scopeAddresses THEN ErrScopeMismatch
  ELSE ""
\* decrypt(handle, scopeAddress, signature): the error it fails with, "" if none.
decryptError(handle, scopeAddress, signature) ==
  IF ~MayDecrypt(handle, signature.requesterId) THEN ErrUnauthorized
  ELSE IF ~inWindow(signature) THEN ErrExpired
  ELSE IF scopeAddress \notin signature.scopeAddresses THEN ErrScopeMismatch
  ELSE ""

\* The record of one decrypt: the cleartext is returned only without error.
decryptOutcome(handle, scopeAddress, signature) ==
  LET err == decryptError(handle, scopeAddress, signature)
  IN  Outcome("userDecrypt", signature.requesterId, <<handle, scopeAddress, signature>>,
              err, IF err = "" THEN <<Value(handle)>> ELSE <<>>)

\* (mutant) loadOrSign that starts a handshake of its own while one is outstanding
joinsHandshakeNever(q) == FALSE
\* A call of loadOrSign that finds a handshake outstanding for its key
\* awaits it and shares its result.
joinsHandshake(q) == handshake[q] > 0

\* A day passes.
Tick ==
  /\ now < MaxTime
  /\ now' = now + 1
  /\ UNCHANGED <<vars, memo, reset, cli, signatureStorage, handshake, signRequests, hook, rendered,
                 isRefreshingRef, ownership, refresh, write, decrypt>>

\* Requester q presents the signature it holds in its storage to decrypt the
\* stored distance of player p, naming scopeAddress as the contract.
Decrypt(q, p, scopeAddress) ==
  /\ signatureStorage[q].serial # 0
  /\ userDistances[p] # EmptyHandle
  /\ lastCall' = decryptOutcome(userDistances[p], scopeAddress, signatureStorage[q])
  /\ UNCHANGED <<variant, contractState, clientVars>>

\* ---------------------------------------------- client: decryptDistance
\* An invocation takes the first free place of DecryptCalls.
DecryptDistanceTrigger(d) ==
  /\ decrypt[d].pc = "idle"
  /\ d = "second" => decrypt["first"].pc # "idle"
  /\ instance(rendered) /\ rendered.encryptedDistance # Undefined /\ memo["canDecrypt"]
  /\ hook' = [hook EXCEPT !.isDecrypting = TRUE, !.message = MsgDecrypting]
  /\ decrypt' = [decrypt EXCEPT ![d] =
                   [IdleDecrypt EXCEPT !.pc = "loadOrSign",
                                       !.requester = rendered.ethersSigner,
                                       !.handle = rendered.encryptedDistance]]
  /\ UNCHANGED <<vars, memo, reset, cli, now, signatureStorage, handshake, signRequests, rendered,
                 isRefreshingRef, ownership, refresh, write>>

\* loadOrSign looks its key up: a valid cached signature is returned at once
\* and the handler goes on to userDecrypt; otherwise the call joins the
\* handshake outstanding for its key or asks the signer to sign.
LoadOrSign(d) ==
  /\ decrypt[d].pc = "loadOrSign"
  /\ LET q == decrypt[d].requester IN
     IF cachedValid(q)
       THEN /\ decrypt' = [decrypt EXCEPT ![d].pc = "userDecrypt",
                                          ![d].sig = signatureStorage[q]]
            /\ hook' = [hook EXCEPT !.message = MsgUserDecrypt]
            /\ UNCHANGED <<handshake, signRequests>>
       ELSE IF joinsHandshake(q)
         THEN /\ decrypt' = [decrypt EXCEPT ![d].pc = "joined"]
              /\ UNCHANGED <<hook, handshake, signRequests>>
         ELSE /\ signRequests < MaxSignRequests
              /\ signRequests' = signRequests + 1
              /\ handshake' = [handshake EXCEPT ![q] = @ + 1]
              /\ decrypt' = [decrypt EXCEPT ![d].pc = "signing"]
              /\ UNCHANGED hook
  /\ UNCHANGED <<vars, memo, reset, cli, now, signatureStorage, rendered, isRefreshingRef,
                 ownership, refresh, write>>

\* The calls that receive the result of the handshake call d started.
sharers(d) ==
  {d} \cup {e \in DecryptCalls :
              decrypt[e].pc = "joined" /\ decrypt[e].requester = decrypt[d].requester}

\* The signer signs: the signature is stored and returned to every sharer,
\* whose handler goes on to userDecrypt.
SignerSigns(d) ==
  /\ decrypt[d].pc = "signing"
  /\ LET q == decrypt[d].requester
         sig == [requesterId |-> q, scopeAddresses |-> {This},
                 serial |-> signRequests, issuedAt |-> now]
     IN  /\ signatureStorage' = [signatureStorage EXCEPT ![q] = sig]
         /\ handshake' = [handshake EXCEPT ![q] = @ - 1]
         /\ decrypt' = [e \in DecryptCalls |->
                          IF e \in sharers(d)
                            THEN [decrypt[e] EXCEPT !.pc = "userDecrypt", !.sig = sig]
                            ELSE decrypt[e]]
  /\ hook' = [hook EXCEPT !.message = MsgUserDecrypt]
  /\ UNCHANGED <<vars, memo, reset, cli, now, signRequests, rendered, isRefreshingRef, ownership,
                 refresh, write>>

\* The signer declines: loadOrSign returns null and the handler returns.
SignerDeclines(d) ==
  /\ decrypt[d].pc = "signing"
  /\ handshake' = [handshake EXCEPT ![decrypt[d].requester] = @ - 1]
  /\ decrypt' = [e \in DecryptCalls |->
                   IF e \in sharers(d) THEN IdleDecrypt ELSE decrypt[e]]
  /\ hook' = [hook EXCEPT !.message = MsgNoSignature]
  /\ UNCHANGED <<vars, memo, reset, cli, now, signatureStorage, signRequests, rendered,
                 isRefreshingRef, ownership, refresh, write>>

\* instance.userDecrypt answers; the handler shows the result or the error
\* and clears isDecrypting.
UserDecrypt(d) ==
  /\ decrypt[d].pc = "userDecrypt"
  /\ lastCall' = decryptOutcome(decrypt[d].handle, This, decrypt[d].sig)
  /\ hook' = IF lastCall'.err = ""
               THEN [hook EXCEPT !.decryptedDistance = lastCall'.ret[1],
                                 !.isDecrypted = TRUE,
                                 !.message = feedback(lastCall'.ret[1]),
                                 !.isDecrypting = FALSE]
               ELSE [hook EXCEPT !.message = MsgDecryptError, !.isDecrypting = FALSE]
  /\ decrypt' = [decrypt EXCEPT ![d] = IdleDecrypt]
  /\ UNCHANGED <<variant, contractState, memo, reset, cli, now, signatureStorage, handshake,
                 signRequests, rendered, isRefreshingRef, ownership, refresh, write>>

\* ------------------------------------------------ client specifications
\* What other clients do to the contract meanwhile.
OtherClients ==
  /\ \/ \E r \in ScenarioDraws : CreateTreasure(Owner, r[1], r[2])
     \/ \E c \in Principals, g \in ScenarioGuesses : Guess(c, g[1], g[2], TRUE, TRUE)
  /\ lastCall'.err = ""
  /\ UNCHANGED clientVars

\* Decryption: the other clients play before the wallet of this client
\* connects; then its refreshes and its decryptions, the signer, the clock,
\* and the holders of signatures calling decrypt.  The protocol does not
\* depend on the version of the contract: the max version is deployed.
DecryptNext ==
  \/ OtherClients /\ hook.ethersSigner = None /\ Len(ciphertexts') <= DecryptMaxHandles
  \/ \E p \in Principals : Connect(p)
  \/ Render
  \/ \E ok \in BOOLEAN : OwnershipChecked(ok)
  \/ \E k \in RefreshCalls : RefreshServed(k)
  \/ \E k \in RefreshCalls : RefreshReadyDelivered(k)
  \/ \E k \in RefreshCalls : RefreshDistanceDelivered(k)
  \/ ManualRefresh
  \/ \E d \in DecryptCalls : DecryptDistanceTrigger(d)
  \/ \E d \in DecryptCalls : LoadOrSign(d)
  \/ \E d \in DecryptCalls : SignerSigns(d)
  \/ \E d \in DecryptCalls : SignerDeclines(d)
  \/ \E d \in DecryptCalls : UserDecrypt(d)
  \/ Tick
  \/ \E q, p \in Principals, a \in {This, Elsewhere} : Decrypt(q, p, a)

DecryptInit == Init /\ variant = "max"

DecryptSpec == DecryptInit /\ [][DecryptNext]_allVars

\* Writing: one connected client creating the treasure and guessing, with
\* its automatic and manual refreshes.
\* The feedback of the hook and of the task, each run once, on the same
\* 8-bit distance.
TierNext ==
  \E d \in 0..(Uint8Mod - 1) :
    \/ /\ cli = IdleCli
       /\ hook.decryptedDistance \in {Undefined, d}
       /\ \E representation \in Representations : CliDecryptDistance(d, representation)
    \/ /\ hook.decryptedDistance = Undefined
       /\ cli.clearDistance \in {Undefined, d}
       /\ ShowFeedback(d)
TierSpec == Init /\ [][TierNext]_allVars

\* A player's session in which the wallet changes to the owner's account
\* while reads, a guess or a decryption are in flight.
SwitchNext ==
  \/ OtherClients /\ hook.ethersSigner = None /\ Len(ciphertexts') <= SwitchMaxHandles
  \/ Connect("p1")
  \/ SwitchSigner(Owner)
  \/ Render
  \/ OwnershipChecked(TRUE)
  \/ \E k \in RefreshCalls : RefreshServed(k)
  \/ \E k \in RefreshCalls : RefreshReadyDelivered(k)
  \/ \E k \in RefreshCalls : RefreshDistanceDelivered(k)
  \/ \E g \in ScenarioGuesses : MakeGuessTrigger(g[1], g[2])
  \/ GuessEncrypted
  \/ WriteSubmitted("guess")
  \/ WriteMined("guess") /\ Len(ciphertexts') <= SwitchMaxHandles
  \/ WriteConfirmed("guess")
  \/ DecryptDistanceTrigger("first")
  \/ LoadOrSign("first")
  \/ SignerSigns("first")
  \/ UserDecrypt("first")
SwitchSpec == DecryptInit /\ [][SwitchNext]_allVars

\* The older hook left alone: the other clients play before the wallet
\* connects; then the hook renders, checks the ownership and refreshes by
\* itself.  No read fails.  React renders after every change of a cell and
\* the node answers every read, so the run does not stop while a step is
\* possible.
LegacyNext ==
  \/ OtherClients /\ hook.ethersSigner = None /\ Len(ciphertexts') <= LegacyMaxHandles
  \/ \E p \in Principals : Connect(p)
  \/ LegacyRender
  \/ OwnershipChecked(TRUE)
  \/ RefreshServed("auto")
  \/ LegacyRefreshReadyDelivered
  \/ LegacyRefreshDistanceDelivered
LegacySpec == DecryptInit /\ [][LegacyNext]_allVars /\ WF_allVars(LegacyNext)

\* A player's session with two guesses at different distances from the
\* secret, and decryptions.
StaleNext ==
  \/ /\ \E r \in ScenarioDraws : CreateTreasure(Owner, r[1], r[2])
     /\ lastCall'.err = ""
     /\ UNCHANGED clientVars
  \/ Connect("p1")
  \/ Render
  \/ OwnershipChecked(TRUE)
  \/ \E k \in RefreshCalls : RefreshServed(k)
  \/ \E k \in RefreshCalls : RefreshReadyDelivered(k)
  \/ \E k \in RefreshCalls : RefreshDistanceDelivered(k)
  \/ \E g \in StaleGuesses : MakeGuessTrigger(g[1], g[2])
  \/ GuessEncrypted
  \/ WriteSubmitted("guess")
  \/ WriteMined("guess") /\ Len(ciphertexts') <= StaleMaxHandles
  \/ WriteConfirmed("guess")
  \/ DecryptDistanceTrigger("first")
  \/ LoadOrSign("first")
  \/ SignerSigns("first")
  \/ UserDecrypt("first")
StaleSpec == DecryptInit /\ [][StaleNext]_allVars

HookNext ==
  \/ \E p \in Principals : Connect(p)
  \/ Render
  \/ \E ok \in BOOLEAN : OwnershipChecked(ok)
  \/ ManualRefresh
  \/ \E k \in RefreshCalls : RefreshServed(k)
  \/ \E k \in RefreshCalls : RefreshReadyDelivered(k)
  \/ \E k \in RefreshCalls : RefreshDistanceDelivered(k)
  \/ \E k \in RefreshCalls : RefreshFails(k)
  \/ CreateTreasureTrigger
  \/ \E g \in ScenarioGuesses : MakeGuessTrigger(g[1], g[2])
  \/ GuessEncrypted
  \/ \E k \in WriteCalls : WriteSubmitted(k)
  \/ \E k \in WriteCalls : WriteRejected(k)
  \/ \E k \in WriteCalls : WriteMined(k) /\ Len(ciphertexts') <= HookMaxHandles
  \/ \E k \in WriteCalls : WriteConfirmed(k)

HookSpec == Init /\ [][HookNext]_allVars

\* The owner's session on the max version: every caller of
\* refreshGameState, with one resetGame at a time.
OwnerNext ==
  \/ Connect(Owner)
  \/ Render
  \/ \E ok \in BOOLEAN : OwnershipChecked(ok)
  \/ ManualRefresh
  \/ \E k \in RefreshCalls : RefreshServed(k)
  \/ \E k \in RefreshCalls : RefreshReadyDelivered(k)
  \/ \E k \in RefreshCalls : RefreshDistanceDelivered(k)
  \/ \E k \in RefreshCalls : RefreshFails(k)
  \/ CreateTreasureTrigger
  \/ \E g \in ScenarioGuesses : MakeGuessTrigger(g[1], g[2])
  \/ GuessEncrypted
  \/ \E k \in WriteCalls : WriteSubmitted(k)
  \/ \E k \in WriteCalls : WriteRejected(k)
  \/ \E k \in WriteCalls : WriteMined(k) /\ Len(ciphertexts') <= OwnerMaxHandles
  \/ \E k \in WriteCalls : WriteConfirmed(k)
  \/ ResetGameTrigger("resetGame")
  \/ ResetSubmitted("resetGame")
  \/ ResetRejected("resetGame")
  \/ ResetMined("resetGame")
  \/ ResetConfirmed("resetGame")
OwnerSpec == DecryptInit /\ [][OwnerNext]_allVars

\* The owner creates the treasure and resets the game, pressing "Reset
\* Game" again while a reset is in flight.
ResetNext ==
  \/ Connect(Owner)
  \/ Render
  \/ OwnershipChecked(TRUE)
  \/ \E k \in RefreshCalls : RefreshServed(k)
  \/ \E k \in RefreshCalls : RefreshReadyDelivered(k)
  \/ \E k \in RefreshCalls : RefreshDistanceDelivered(k)
  \/ CreateTreasureTrigger
  \/ WriteSubmitted("createTreasure")
  \/ WriteMined("createTreasure") /\ Len(ciphertexts') <= OwnerMaxHandles
  \/ WriteConfirmed("createTreasure")
  \/ \E i \in ResetCalls : ResetGameTrigger(i)
  \/ \E i \in ResetCalls : ResetSubmitted(i)
  \/ \E i \in ResetCalls : ResetRejected(i)
  \/ \E i \in ResetCalls : ResetMined(i)
  \/ \E i \in ResetCalls : ResetConfirmed(i)
ResetSpec == DecryptInit /\ [][ResetNext]_allVars

\* ------------------------------------------------------- specifications
Next ==
  /\ UNCHANGED clientVars
  /\ \E c \in Principals :
    \/ \E rx, ry \in 0..MaxDraw :
         CreateTreasure(c, rx, ry) /\ Len(ciphertexts') <= MaxHandles
    \/ \E x, y \in 0..MaxInput, okX, okY \in BOOLEAN :
         Guess(c, x, y, okX, okY) /\ Len(ciphertexts') <= MaxHandles
    \/ \E x, y \in 0..MaxInput, okX, okY \in BOOLEAN :
         GuessSimple(c, x, y, okX, okY) /\ Len(ciphertexts') <= MaxHandles
    \/ GetMyDistance(c)
    \/ IsTreasureReady(c)
    \/ ResetGame(c)
    \/ GetTreasureLocation(c)
    \/ \E p \in Principals : DecryptDistance(c, p)

Spec == Init /\ [][Next]_allVars

\* One round on the whole grid: the owner creates, player p1 guesses.
GridNext ==
  /\ UNCHANGED clientVars
  /\ \/ \E rx, ry \in 0..GridMaxDraw :
          /\ ~isTreasureSet
          /\ CreateTreasure(Owner, rx, ry)
          /\ Len(ciphertexts') <= GridMaxHandles
     \/ \E x, y \in 0..GridMaxInput :
          /\ isTreasureSet
          /\ Guess("p1", x, y, TRUE, TRUE)
          /\ Len(ciphertexts') <= GridMaxHandles

GridSpec == Init /\ [][GridNext]_allVars

\* Several rounds: the owner creates the treasure, players guess, the
\* owner resets the game and creates the treasure again, at the same place
\* or at another.  Players of the part_002 contract may also call
\* guessSimple.
RoundsNext ==
  /\ UNCHANGED clientVars
  /\ \/ \E r \in RoundDraws :
          CreateTreasure(Owner, r[1], r[2]) /\ Len(ciphertexts') <= RoundsMaxHandles
     \/ \E c \in Principals, g \in RoundGuesses :
          Guess(c, g[1], g[2], TRUE, TRUE) /\ Len(ciphertexts') <= RoundsMaxHandles
     \/ \E c \in Principals, g \in RoundGuesses :
          GuessSimple(c, g[1], g[2], TRUE, TRUE) /\ Len(ciphertexts') <= RoundsMaxHandles
     \/ ResetGame(Owner)

RoundsSpec == Init /\ [][RoundsNext]_allVars

\* ------------------------------------------------------------ properties
Abs(n) == IF n < 0 THEN -n ELSE n
Manhattan(x, y, sx, sy) == Abs(x - sx) + Abs(y - sy)
GuessSucceeded == lastCall.op = "guess" /\ lastCall.err = ""
GuessedX == lastCall.args[1]
GuessedY == lastCall.args[2]
InGrid(n) == n \in 0..(GridSize - 1)

\* C1: in the select version, once createTreasure has succeeded and player p
\* has guessed (x, y) inside the grid, the value behind userDistances[p] is
\* |x - secretX| + |y - secretY| for the secret (secretX, secretY) in [0,8)^2.
C1_SelectDistanceIsManhattan ==
  (variant = "select" /\ GuessSucceeded /\ InGrid(GuessedX) /\ InGrid(GuessedY))
    => /\ InGrid(Value(secretX)) /\ InGrid(Value(secretY))
       /\ Value(userDistances[lastCall.sender])
            = Manhattan(GuessedX, GuessedY, Value(secretX), Value(secretY))

\* C1 witness: secret (3,4), guess (0,0), stored distance 7.
C1_Witness ==
  /\ variant = "select" /\ GuessSucceeded
  /\ Value(secretX) = 3 /\ Value(secretY) = 4
  /\ GuessedX = 0 /\ GuessedY = 0
  /\ Value(userDistances[lastCall.sender]) = 7

\* A step made by a call of op (every call records itself in lastCall).
Called(op) == lastCall'.op = op
Succeeded(op) == lastCall'.op = op /\ lastCall'.err = ""
OwnerOnlyOps == {"createTreasure", "resetGame", "getTreasureLocation"}
Addresses == Principals \cup {This}
GrantedOn(h) == {a \in Addresses : <<h, a>> \in allowed}

\* C2: while isTreasureSet is false (before the first createTreasure and
\* after a resetGame) every guess reverts with the not-ready error and
\* leaves userDistances, the permissions, the secrets, the flag and the
\* event log as they were.
C2_GuessBeforeCreateFails ==
  [][(~isTreasureSet /\ Called("guess"))
       => (lastCall'.err = ErrNotReady /\ UNCHANGED contractState)]_vars

\* C2 witness: a guess rejected as not ready after a reset.
C2_Witness ==
  /\ lastCall.op = "guess" /\ lastCall.err = ErrNotReady
  /\ ~isTreasureSet /\ secretX # EmptyHandle

\* C3: createTreasure by the owner while isTreasureSet is true reverts with
\* the already-set error, changes nothing and emits nothing; the secret
\* handles are replaced by no step other than one that follows a resetGame.
C3_CreateTwiceFails ==
  [][/\ (isTreasureSet /\ Called("createTreasure") /\ lastCall'.sender = Owner)
          => (lastCall'.err = ErrAlreadySet /\ UNCHANGED contractState)
     /\ (isTreasureSet /\ ~Called("resetGame"))
          => UNCHANGED <<secretX, secretY>>]_vars

\* C3 witness: the owner's second createTreasure rejected after a guess.
C3_Witness ==
  /\ lastCall.op = "createTreasure" /\ lastCall.sender = Owner
  /\ lastCall.err = ErrAlreadySet
  /\ isTreasureSet /\ userDistances["p1"] # EmptyHandle

\* C4: createTreasure, resetGame and getTreasureLocation called by anyone
\* but the owner revert with the not-owner error, return nothing and change
\* nothing; no call of a non-owner changes isTreasureSet or the secrets, and
\* no handle returned to a non-owner is a secret handle.
C4_NonOwnerRejected ==
  [][lastCall'.sender # Owner =>
       /\ lastCall'.op \in OwnerOnlyOps
            => /\ lastCall'.err = ErrNotOwner
               /\ lastCall'.ret = <<>>
               /\ UNCHANGED contractState
       /\ UNCHANGED <<isTreasureSet, secretX, secretY>>
       /\ lastCall'.op \in {"getMyDistance", "decrypt"} /\ lastCall'.ret # <<>>
            => lastCall'.ret[1] = EmptyHandle
               \/ lastCall'.ret[1] \notin {secretX, secretY}]_vars

\* C4 witness: a player's resetGame rejected while the treasure is set.
C4_Witness ==
  /\ lastCall.op = "resetGame" /\ lastCall.sender = "p1"
  /\ lastCall.err = ErrNotOwner /\ isTreasureSet

\* C5: the handle stored in userDistances[p] is granted to p and to the
\* contract only, so the decryption of p's stored handle asked by another
\* player q is refused as Unauthorized.
C5_OnlyPlayerAndContractGranted ==
  /\ \A p \in Principals :
       userDistances[p] # EmptyHandle => GrantedOn(userDistances[p]) \subseteq {p, This}
  /\ (/\ lastCall.op = "decrypt"
      /\ lastCall.sender # lastCall.args[1]
      /\ userDistances[lastCall.args[1]] # EmptyHandle)
       => lastCall.err = ErrUnauthorized

\* C5 witness: the owner, who holds a distance of its own, is refused p1's.
C5_Witness ==
  /\ lastCall.op = "decrypt" /\ lastCall.sender = Owner /\ lastCall.args = <<"p1">>
  /\ lastCall.err = ErrUnauthorized
  /\ userDistances["p1"] # EmptyHandle /\ userDistances[Owner] # EmptyHandle

\* C6: every non-empty handle stored in userDistances[p] is granted to p and
\* to the contract, so p's request to decrypt its own stored distance
\* succeeds and yields the value behind the handle.
C6_StoredHandleIsGranted ==
  /\ \A p \in Principals :
       userDistances[p] # EmptyHandle
         => {p, This} \subseteq GrantedOn(userDistances[p])
  /\ (/\ lastCall.op = "decrypt"
      /\ lastCall.sender = lastCall.args[1]
      /\ userDistances[lastCall.sender] # EmptyHandle)
       => /\ lastCall.err = ""
          /\ lastCall.ret = <<userDistances[lastCall.sender],
                              Value(userDistances[lastCall.sender])>>

\* C6 witness: p1 decrypts its own distance after the game was reset.
C6_Witness ==
  /\ lastCall.op = "decrypt" /\ lastCall.sender = "p1" /\ lastCall.args = <<"p1">>
  /\ lastCall.err = "" /\ lastCall.ret[1] = userDistances["p1"]
  /\ ~isTreasureSet

\* C7: secretX and secretY are defined (hold a handle) exactly when
\* isTreasureSet is true.
C7_SecretsDefinedIffSet ==
  /\ isTreasureSet <=> secretX # EmptyHandle
  /\ isTreasureSet <=> secretY # EmptyHandle

\* C8: while the treasure is set, every step other than a successful
\* resetGame (guess, getMyDistance, isTreasureReady, getTreasureLocation,
\* failed createTreasure, ...) leaves secretX, secretY, the values they
\* encrypt and isTreasureSet unchanged.
C8_SecretImmutableUntilReset ==
  [][(isTreasureSet /\ ~Succeeded("resetGame"))
       => /\ UNCHANGED <<secretX, secretY, isTreasureSet>>
          /\ Value(secretX)' = Value(secretX)
          /\ Value(secretY)' = Value(secretY)]_vars

\* C8 witness: two guesses later the secret is still the one created first.
C8_Witness ==
  /\ isTreasureSet /\ lastCall.op = "guess" /\ lastCall.err = ""
  /\ secretX = 1 /\ secretY = 2 /\ Len(ciphertexts) = 4

\* C9: in the max version both secret coordinates lie in [0, GridSize)
\* after every successful createTreasure.
C9_MaxSecretInGrid ==
  (variant = "max" /\ isTreasureSet)
    => InGrid(Value(secretX)) /\ InGrid(Value(secretY))

\* C10: a successful guess by p stores the handle it has just computed in
\* userDistances[p] in place of p's earlier handle and leaves the entry of
\* every other player unchanged; getMyDistance returns the stored entry.
C10_GuessOverwritesOwnEntryOnly ==
  [][/\ Succeeded("guess") =>
          LET p == lastCall'.sender IN
          /\ userDistances'[p] = Len(ciphertexts')
          /\ userDistances'[p] > Len(ciphertexts)
          /\ userDistances'[p] # userDistances[p]
          /\ ciphertexts'[userDistances'[p]]
               = distanceOf(variant, lastCall'.args[1], lastCall'.args[2],
                            Value(secretX), Value(secretY))
          /\ \A q \in Principals \ {p} : userDistances'[q] = userDistances[q]
     /\ Called("getMyDistance")
          => lastCall'.ret = <<userDistances[lastCall'.sender]>>]_vars

\* C10 witness: p1 has guessed twice; its entry is the second handle, and
\* getMyDistance returns it.
C10_Witness ==
  /\ lastCall.op = "getMyDistance" /\ lastCall.sender = "p1"
  /\ lastCall.ret = <<4>> /\ userDistances["p1"] = 4
  /\ <<3, "p1">> \in allowed /\ events[2] = <<"GuessSubmitted", "p1">>

\* p has a GuessSubmitted event in the log.
HasGuessed(p) == \E i \in 1..Len(events) : events[i] = <<"GuessSubmitted", p>>

\* C11: a successful resetGame sets isTreasureSet to false and changes
\* nothing else: every userDistances entry, every ciphertext, every grant
\* and the event log stay, so each stored distance is still granted to its
\* player and to the contract and still encrypts the same value.
C11_ResetOnlyClearsFlag ==
  [][Succeeded("resetGame") =>
       /\ isTreasureSet' = FALSE
       /\ UNCHANGED <<secretX, secretY, userDistances, ciphertexts, allowed, events>>
       /\ \A p \in Principals :
            userDistances[p] # EmptyHandle =>
              /\ userDistances'[p] = userDistances[p]
              /\ {<<userDistances[p], p>>, <<userDistances[p], This>>} \subseteq allowed'
              /\ ciphertexts'[userDistances[p]] = ciphertexts[userDistances[p]]]_vars

\* C11 witness: the game has just been reset and both players still hold
\* the distance handle they stored before.
C11_Witness ==
  /\ lastCall.op = "resetGame" /\ lastCall.err = "" /\ ~isTreasureSet
  /\ userDistances["p1"] # EmptyHandle /\ userDistances[Owner] # EmptyHandle
  /\ <<userDistances["p1"], "p1">> \in allowed

\* C12: getMyDistance never reverts and never changes state; it returns
\* userDistances[caller], which is the empty handle exactly when no
\* GuessSubmitted event names the caller.
C12_GetMyDistanceTotal ==
  [][Called("getMyDistance") =>
       /\ lastCall'.err = ""
       /\ lastCall'.ret = <<userDistances[lastCall'.sender]>>
       /\ UNCHANGED contractState
       /\ (lastCall'.ret[1] = EmptyHandle) <=> ~HasGuessed(lastCall'.sender)]_vars

\* C12 witness: before any treasure exists p1 reads the empty handle.
C12_Witness ==
  /\ lastCall.op = "getMyDistance" /\ lastCall.sender = "p1"
  /\ lastCall.err = "" /\ lastCall.ret = <<EmptyHandle>>
  /\ ~isTreasureSet /\ secretX = EmptyHandle

\* C13: getTreasureLocation called by the owner reverts with the not-set
\* error whenever isTreasureSet is false and returns (secretX, secretY) when
\* it is true; it never changes state.
C13_LocationOnlyWhenSet ==
  [][(Called("getTreasureLocation") /\ lastCall'.sender = Owner) =>
       /\ UNCHANGED contractState
       /\ IF isTreasureSet
          THEN lastCall'.err = "" /\ lastCall'.ret = <<secretX, secretY>>
          ELSE lastCall'.err = ErrNotSet /\ lastCall'.ret = <<>>]_vars

\* C13 witness: the owner is refused the location after a reset.
C13_Witness ==
  /\ lastCall.op = "getTreasureLocation" /\ lastCall.sender = Owner
  /\ lastCall.err = ErrNotSet /\ ~isTreasureSet /\ secretX # EmptyHandle

\* C14: a guess made while the treasure is not ready, or with an input proof
\* that fails on either coordinate, reverts; a guess that reverts leaves
\* userDistances, the grants and the event log as they were.
C14_FailedGuessHasNoEffect ==
  [][Called("guess") =>
       /\ \A okX, okY \in BOOLEAN :
            (/\ Guess(lastCall'.sender, lastCall'.args[1], lastCall'.args[2], okX, okY)
             /\ (~isTreasureSet \/ ~okX \/ ~okY))
              => lastCall'.err # ""
       /\ lastCall'.err # "" => UNCHANGED contractState]_vars

\* C14 witness: a guess with a bad proof was rejected and the caller's
\* earlier distance is still stored.
C14_Witness ==
  /\ lastCall.op = "guess" /\ lastCall.err = ErrInvalidProof
  /\ isTreasureSet /\ userDistances[lastCall.sender] # EmptyHandle

\* C15: isTreasureSet starts false, becomes true only by a successful
\* createTreasure of the owner and false only by a successful resetGame of
\* the owner; isTreasureReady returns its current value.
C15_FlagLifecycle ==
  /\ isTreasureSet = FALSE
  /\ [][/\ (~isTreasureSet /\ isTreasureSet')
             => (Succeeded("createTreasure") /\ lastCall'.sender = Owner)
        /\ (isTreasureSet /\ ~isTreasureSet')
             => (Succeeded("resetGame") /\ lastCall'.sender = Owner)
        /\ Called("isTreasureReady")
             => (lastCall'.err = "" /\ lastCall'.ret = <<isTreasureSet'>>)]_vars

\* C15 witness: the second round: a treasure created again after a reset.
C15_Witness ==
  /\ isTreasureSet /\ secretX = 3
  /\ lastCall.op = "createTreasure" /\ lastCall.err = ""

\* C16: what a guess shows in cleartext (revert or success, the emitted
\* event, the userDistances key written, the grants) is determined by the
\* flag, the validity of the proofs and the caller alone, whatever the
\* secret and the guessed coordinates are; no TreasureFound is ever emitted.
C16_GuessOutcomeIndependentOfValues ==
  [][Called("guess") =>
       LET c == lastCall'.sender
           h == Len(ciphertexts) + 1
       IN
       /\ \A okX, okY \in BOOLEAN :
            Guess(c, lastCall'.args[1], lastCall'.args[2], okX, okY) =>
              IF isTreasureSet /\ okX /\ okY
              THEN /\ lastCall'.err = ""
                   /\ events' = Append(events, <<"GuessSubmitted", c>>)
                   /\ userDistances' = [userDistances EXCEPT ![c] = h]
                   /\ allowed' = allowed \cup {<<h, c>>, <<h, This>>}
                   /\ Len(ciphertexts') = h
                   /\ UNCHANGED <<isTreasureSet, secretX, secretY>>
              ELSE /\ lastCall'.err = IF ~isTreasureSet THEN ErrNotReady
                                      ELSE ErrInvalidProof
                   /\ UNCHANGED contractState
       /\ \A i \in 1..Len(events') : events'[i][1] # "TreasureFound"]_vars

\* C16 witness: a guess that hit the treasure (distance 0) shows the same
\* events as any other guess.
C16_Witness ==
  /\ GuessSucceeded /\ Value(userDistances[lastCall.sender]) = 0
  /\ Value(secretX) = 5 /\ Value(secretY) = 2
  /\ events = <<<<"TreasureCreated">>, <<"GuessSubmitted", lastCall.sender>>>>

\* The signature a call of decryptDistance holds, once loadOrSign returned one.
Holds(d) == decrypt[d].sig.serial # 0

\* C17: loadOrSign is idempotent inside the validity window.  Every signature
\* a call obtained for a requester and still inside its window is the one the
\* requester's storage holds, so two calls made in the window return identical
\* material; a call that finds a valid cached signature returns it without a
\* signing request; a call that finds an expired one (and no handshake
\* outstanding) makes a new signing request, and the signature the signer
\* then returns differs from the one it replaces.
C17_LoadOrSignIdempotent ==
  /\ [](\A d \in DecryptCalls :
          (Holds(d) /\ inWindow(decrypt[d].sig))
            => decrypt[d].sig = signatureStorage[decrypt[d].requester])
  /\ [][\A d \in DecryptCalls :
          LET q == decrypt[d].requester IN
          /\ (LoadOrSign(d) /\ cachedValid(q))
               => /\ decrypt'[d].sig = signatureStorage[q]
                  /\ signRequests' = signRequests
                  /\ signatureStorage' = signatureStorage
          /\ (LoadOrSign(d) /\ signatureStorage[q].serial # 0
                /\ ~inWindow(signatureStorage[q]) /\ handshake[q] = 0)
               => signRequests' = signRequests + 1
          /\ SignerSigns(d)
               => /\ decrypt'[d].sig = signatureStorage'[q]
                  /\ decrypt'[d].sig.serial > signatureStorage[q].serial
                  /\ decrypt'[d].sig # signatureStorage[q]]_allVars

\* C17 witness: after a first decryption, a later call inside the window has
\* the first signature back, and one signing request was made in all.
C17_Witness ==
  /\ hook.decryptedDistance # Undefined
  /\ decrypt["first"].pc = "userDecrypt"
  /\ decrypt["first"].sig = signatureStorage[decrypt["first"].requester]
  /\ inWindow(decrypt["first"].sig)
  /\ signRequests = 1

\* C18: decrypt returns the cleartext exactly when the handle was granted to
\* the signature's requester, the time is inside the signature's window and
\* the scope address is one of the signature's; otherwise it returns nothing
\* and fails with Unauthorized, Expired or ScopeMismatch respectively.
C18_DecryptConditions ==
  [][((\E d \in DecryptCalls : UserDecrypt(d))
        \/ (\E q, p \in Principals, a \in {This, Elsewhere} : Decrypt(q, p, a)))
      => LET handle == lastCall'.args[1]
             scopeAddress == lastCall'.args[2]
             signature == lastCall'.args[3]
             granted == <<handle, signature.requesterId>> \in allowed
             timely == now < signature.issuedAt + validDurationDays
             scoped == scopeAddress \in signature.scopeAddresses
         IN  /\ lastCall'.op = "userDecrypt"
             /\ (granted /\ timely /\ scoped)
                  <=> (lastCall'.err = "" /\ lastCall'.ret = <<Value(handle)>>)
             /\ lastCall'.err # "" => lastCall'.ret = <<>>
             /\ lastCall'.err \in {"", ErrUnauthorized, ErrExpired, ErrScopeMismatch}
             /\ lastCall'.err = ErrUnauthorized => ~granted
             /\ lastCall'.err = ErrExpired => ~timely
             /\ lastCall'.err = ErrScopeMismatch => ~scoped
             /\ (~granted /\ timely /\ scoped) => lastCall'.err = ErrUnauthorized
             /\ (granted /\ ~timely /\ scoped) => lastCall'.err = ErrExpired
             /\ (granted /\ timely /\ ~scoped) => lastCall'.err = ErrScopeMismatch]_allVars

\* C18 witness: a requester inside its window, holding the grant, named an
\* address outside the signature's scope and was refused.
C18_Witness ==
  /\ lastCall.op = "userDecrypt"
  /\ lastCall.err = ErrScopeMismatch
  /\ lastCall.ret = <<>>
  /\ <<lastCall.args[1], lastCall.sender>> \in allowed

\* C19: for one requester at most one signing request is with the signer at
\* any time, and no request is made while one is outstanding.
C19_OneHandshakeOutstanding ==
  /\ [](\A q \in Principals : handshake[q] <= 1)
  /\ [][\A q \in Principals : handshake[q] > 0 => signRequests' = signRequests]_allVars

\* C19 witness: decryptDistance was triggered twice before the hook rendered
\* again; the second call awaits the handshake of the first, and one signing
\* request reached the signer.
C19_Witness ==
  /\ ~rendered.isDecrypting
  /\ decrypt["first"].pc = "signing"
  /\ decrypt["second"].pc = "joined"
  /\ handshake[decrypt["first"].requester] = 1
  /\ signRequests = 1

\* The step in which createTreasure or makeGuess returns after a confirmed
\* write, its refresh not having reported an error.
Completes(k) ==
  /\ write[k].pc # "idle"
  /\ write'[k].pc = "idle"
  /\ write'[k].result = "success"
  /\ hook'.message # MsgRefreshError
\* What a refresh makes of a value of userDistances.
clientDistance(userDistance) ==
  IF matchesSentinel(userDistance) THEN Undefined ELSE userDistance

\* C20: when createTreasure or makeGuess of the hook completes successfully,
\* with its own write still the latest call the contract ran, the client's
\* isTreasureReady and encryptedDistance are the contract's values.
C20_ReadAfterWrite ==
  [][\A k \in WriteCalls :
       (Completes(k) /\ lastCall.op = k /\ lastCall.sender = write[k].signer)
         => /\ ~hook'[inFlightFlag(k)]
            /\ hook'.isTreasureReady = FlagOf(isTreasureSet)
            /\ hook'.encryptedDistance
                 = clientDistance(userDistances[write[k].signer])]_allVars

\* C29: in the max version the distance guess stores is the Manhattan
\* distance between the guess and the secret:
\* FHE.max(FHE.sub(g, s), FHE.sub(s, g)) is |g - s| on each axis.
C29_MaxDistanceIsManhattan ==
  (variant = "max" /\ GuessSucceeded)
    => /\ absDiffMax(GuessedX, Value(secretX)) = Abs(GuessedX - Value(secretX))
       /\ absDiffMax(GuessedY, Value(secretY)) = Abs(GuessedY - Value(secretY))
       /\ Value(userDistances[lastCall.sender])
            = Manhattan(GuessedX, GuessedY, Value(secretX), Value(secretY))

\* A subtraction of 8-bit operands <<a, b>> wraps when a < b.
Wraps(pair) == pair[1] < pair[2]
SelectGuessed == variant = "select" /\ GuessSucceeded
ReducedX == GuessedX % RemDivisor
ReducedY == GuessedY % RemDivisor

\* C30 as stated: in the select version the stored distance is
\* |x mod 8 - secretX| + |y mod 8 - secretY|, it lies in 0..14, and no
\* subtraction and no addition of guess wraps around modulo 256.
C30_NoOperationWraps ==
  SelectGuessed
    => /\ Value(userDistances[lastCall.sender])
            = Manhattan(ReducedX, ReducedY, Value(secretX), Value(secretY))
       /\ Value(userDistances[lastCall.sender]) \in 0..14
       /\ \A pair \in subtractionsSelect(GuessedX, GuessedY,
                                         Value(secretX), Value(secretY)) :
            ~Wraps(pair)
       /\ absDiffSelect(ReducedX, Value(secretX))
            + absDiffSelect(ReducedY, Value(secretY)) < Uint8Mod

\* C30 as amended: the same, for the subtractions whose result the select
\* keeps; the subtraction in the other order wraps and is discarded.
C30_SelectedOperationsDoNotWrap ==
  SelectGuessed
    => /\ Value(userDistances[lastCall.sender])
            = Manhattan(ReducedX, ReducedY, Value(secretX), Value(secretY))
       /\ Value(userDistances[lastCall.sender]) \in 0..14
       /\ \A pair \in selectedSubtractions(GuessedX, GuessedY,
                                           Value(secretX), Value(secretY)) :
            ~Wraps(pair)
       /\ absDiffSelect(ReducedX, Value(secretX))
            + absDiffSelect(ReducedY, Value(secretY)) < Uint8Mod

\* C30 witness: the guess (8, 8) is reduced to (0, 0); against the secret
\* (7, 7) the stored distance is 14.
C30_Witness ==
  /\ SelectGuessed
  /\ GuessedX = 8 /\ GuessedY = 8
  /\ Value(secretX) = 7 /\ Value(secretY) = 7
  /\ Value(userDistances[lastCall.sender]) = 14

\* The tier a line of feedback belongs to: the hook's message for the
\* distance d, and the line the task prints.
messageTier(message, d) ==
  IF message = "CONGRATULATIONS! You found the treasure!" THEN "found"
  ELSE IF message = "Very close! Distance: " \o ToString(d) THEN "very close"
  ELSE IF message = "Getting warmer... Distance: " \o ToString(d) THEN "getting warmer"
  ELSE IF message = "Getting colder... Distance: " \o ToString(d) THEN "getting colder"
  ELSE IF message = "Very cold! Distance: " \o ToString(d) THEN "very cold"
  ELSE None
printedTier(line) ==
  IF line = "CONGRATULATIONS! You found the treasure!" THEN "found"
  ELSE IF line = "Very close! You're getting warmer!" THEN "very close"
  ELSE IF line = "Getting warmer..." THEN "getting warmer"
  ELSE IF line = "Getting colder..." THEN "getting colder"
  ELSE IF line = "Very cold! Try a different area." THEN "very cold"
  ELSE None
tierOf(d) ==
  IF d = 0 THEN "found"
  ELSE IF d <= 2 THEN "very close"
  ELSE IF d <= 5 THEN "getting warmer"
  ELSE IF d <= 10 THEN "getting colder"
  ELSE "very cold"

\* C27: for every decrypted distance d in 0..255 the feedback is "found"
\* iff d = 0, "very close" iff 1 <= d <= 2, "getting warmer" iff
\* 3 <= d <= 5, "getting colder" iff 6 <= d <= 10 and "very cold" iff
\* d >= 11, and the hook and the task treasure:decrypt-distance give the
\* same d the same tier.
C27_FeedbackTiers ==
  /\ hook.decryptedDistance # Undefined
       => messageTier(hook.message, hook.decryptedDistance)
            = tierOf(hook.decryptedDistance)
  /\ cli.clearDistance # Undefined
       => printedTier(cli.printed) = tierOf(cli.clearDistance)
  /\ (hook.decryptedDistance # Undefined
        /\ cli.clearDistance = hook.decryptedDistance)
       => printedTier(cli.printed)
            = messageTier(hook.message, hook.decryptedDistance)

InProgress == {k \in RefreshCalls : refresh[k].pc # "idle"}

\* C21: at most one execution of the body of refreshGameState is in
\* progress at any time, whichever of the automatic refresh, the manual
\* refresh and the refreshes at the end of createTreasure, makeGuess and
\* resetGame ask for it, and isRefreshingRef.current is set exactly while
\* one is: every exit path clears it, so no later refresh finds it set with
\* no refresh in progress.
C21_OneRefreshAtATime ==
  /\ Cardinality(InProgress) <= 1
  /\ isRefreshingRef <=> InProgress # {}
  /\ hook.isRefreshing <=> isRefreshingRef

\* C21 witness: createTreasure has completed while the automatic refresh
\* was still waiting for its first read, so its own refresh was refused.
C21_Witness ==
  /\ InProgress = {"auto"}
  /\ write["createTreasure"].pc = "idle"
  /\ write["createTreasure"].result = "success"
  /\ hook.isTreasureReady = "undefined"

\* The invocations of resetGame whose transaction is sent and whose
\* tx.wait() has not returned.
Unconfirmed == {i \in ResetCalls : reset[i].pc \in {"mining", "mined"}}

\* C22: at most one invocation of a mutating action has a transaction
\* submitted and unconfirmed at any time; a second trigger of resetGame
\* while the first is in flight submits no second transaction.
C22_OneTransactionInFlight == Cardinality(Unconfirmed) <= 1

\* The in-flight cell of the action a capability enables.
inFlightCell(c) ==
  IF c = "canCreateTreasure" THEN "isCreatingTreasure"
  ELSE IF c = "canMakeGuess" THEN "isMakingGuess"
  ELSE IF c = "canDecrypt" THEN "isDecrypting"
  ELSE "isRefreshing"

FailedAttempt(d) ==
  \/ SignerDeclines(d)
  \/ UserDecrypt(d) /\ lastCall'.err # ""

\* C23: a decryptDistance attempt that produces no cleartext leaves
\* isDecrypting false and isDecrypted and decryptedDistance as they were,
\* so that canDecrypt is true again.
C23_FailedDecryptRestoresFlags ==
  [][\A d \in DecryptCalls :
       FailedAttempt(d)
         => /\ ~hook'.isDecrypting
            /\ hook'.isDecrypted = hook.isDecrypted
            /\ hook'.decryptedDistance = hook.decryptedDistance
            /\ ~hook'.isDecrypted => canDecrypt(hook')]_allVars

ErrorMessages ==
  {MsgRefreshError, MsgCreateError, MsgGuessError, MsgResetError,
   MsgDecryptError, MsgNoSignature}

\* C28: every failure of a client operation (the ownership check, a
\* refresh, createTreasure, makeGuess, resetGame) leaves the error message
\* of that operation in the status message.
C28_FailuresSetErrorMessage ==
  [][/\ OwnershipChecked(FALSE) => hook'.message \in ErrorMessages
     /\ \A k \in RefreshCalls :
          RefreshFails(k) => hook'.message = MsgRefreshError
     /\ \A k \in WriteCalls :
          (WriteRejected(k) \/ (WriteConfirmed(k) /\ write[k].result = "reverted"))
            => hook'.message = errorMessage(k)
     /\ \A i \in ResetCalls :
          (ResetRejected(i) \/ (ResetConfirmed(i) /\ reset[i].result = "reverted"))
            => hook'.message = MsgResetError]_allVars

\* C24: the result of a refresh or of a decryption that was started for
\* one signer and returns when the hook holds another is discarded: it
\* changes none of encryptedDistance, decryptedDistance and isDecrypted.
C24_ResultsOfPreviousSignerDiscarded ==
  [][/\ \A k \in RefreshCalls :
          (RefreshDistanceDelivered(k) /\ refresh[k].signer # hook.ethersSigner)
            => /\ hook'.encryptedDistance = hook.encryptedDistance
               /\ hook'.isDecrypted = hook.isDecrypted
     /\ \A d \in DecryptCalls :
          (UserDecrypt(d) /\ decrypt[d].requester # hook.ethersSigner)
            => /\ hook'.decryptedDistance = hook.decryptedDistance
               /\ hook'.isDecrypted = hook.isDecrypted]_allVars

\* C26: whenever isDecrypted is true, decryptedDistance is the cleartext
\* of the handle that encryptedDistance holds.
C26_DecryptedIsOfCurrentHandle ==
  hook.isDecrypted
    => /\ hook.encryptedDistance # Undefined
       /\ hook.decryptedDistance = Value(hook.encryptedDistance)

GuessStored == Succeeded("guess") \/ Succeeded("guessSimple")

\* C31: a successful createTreasure emits exactly one TreasureCreated, a
\* successful guess by p exactly one GuessSubmitted(p), p being the caller
\* whose userDistances entry is written, and no other step emits anything;
\* GuessSubmitted is emitted only while the treasure is set, the flag is
\* set only by a createTreasure that emits TreasureCreated and cleared by
\* every successful resetGame, so each GuessSubmitted follows a
\* TreasureCreated with no successful resetGame in between.
C31_EventsFollowLifecycle ==
  /\ [](isTreasureSet => \E i \in 1..Len(events) : events[i] = <<"TreasureCreated">>)
  /\ [][/\ Succeeded("createTreasure")
             => events' = Append(events, <<"TreasureCreated">>)
        /\ GuessStored
             => /\ events' = Append(events, <<"GuessSubmitted", lastCall'.sender>>)
                /\ isTreasureSet /\ isTreasureSet'
                /\ userDistances'[lastCall'.sender] = NewHandle
                /\ \A p \in Principals \ {lastCall'.sender} :
                     userDistances'[p] = userDistances[p]
        /\ ~(Succeeded("createTreasure") \/ GuessStored) => events' = events
        /\ Succeeded("resetGame") => ~isTreasureSet'
        /\ (~isTreasureSet /\ isTreasureSet') => Succeeded("createTreasure")]_vars

\* C31 witness: two players have guessed after the treasure was created.
C31_Witness ==
  /\ events = <<<<"TreasureCreated">>, <<"GuessSubmitted", "p1">>,
                <<"GuessSubmitted", Owner>>>>
  /\ userDistances["p1"] # EmptyHandle /\ userDistances[Owner] # EmptyHandle
  /\ lastCall.op = "guess" /\ lastCall.sender = Owner /\ lastCall.err = ""

\* A step in which createTreasure or makeGuess gives up: the wallet or the
\* encryption throws, or tx.wait() throws for a reverted transaction.
WriteFails(k) ==
  \/ WriteRejected(k)
  \/ WriteConfirmed(k) /\ write[k].result = "reverted"
capabilityOf(k) == IF k = "createTreasure" THEN "canCreateTreasure" ELSE "canMakeGuess"

\* C32: when createTreasure or makeGuess fails, the action ends with its
\* in-flight cell false and the message set to its error text, and changes
\* no other cell: isTreasureReady, encryptedDistance, isDecrypted and
\* decryptedDistance are as they were, and the capability of the action is
\* what it was without the in-flight cell.
C32_FailedWriteRestoresFlags ==
  [][\A k \in WriteCalls :
       WriteFails(k)
         => /\ hook' = [hook EXCEPT !.message = errorMessage(k),
                                    ![inFlightFlag(k)] = FALSE]
            /\ hook[inFlightFlag(k)]
            /\ write'[k].pc = "idle" /\ write'[k].result = "error"
            /\ capability(capabilityOf(k), hook')
                 = capability(capabilityOf(k), [hook EXCEPT ![inFlightFlag(k)] = FALSE])]_allVars

\* C32 witness: the owner's second createTreasure was reverted by the
\* contract; the action has ended with its error text and its flag clear.
C32_Witness ==
  /\ write["createTreasure"].pc = "idle"
  /\ write["createTreasure"].result = "error"
  /\ lastCall.op = "createTreasure" /\ lastCall.err = ErrAlreadySet
  /\ hook.message = MsgCreateError /\ ~hook.isCreatingTreasure
  /\ canCreateTreasure(hook)

\* C34: the empty handle the contract returns for a signer who has never
\* guessed is never held in encryptedDistance, so canDecrypt is not true of
\* it and no decryptDistance is started for it.
C34_EmptyHandleNeverOffered ==
  /\ hook.encryptedDistance # EmptyHandle
  /\ \A d \in DecryptCalls : decrypt[d].handle # EmptyHandle

\* The step in which a successful resetGame ends: the refresh it awaits
\* returns with the answer of userDistances.
ResetCompletes(i) == reset[i].pc = "refreshing" /\ RefreshDistanceDelivered(i)

\* C36: when a client resetGame has completed successfully, the refresh at
\* its end included, encryptedDistance and decryptedDistance are undefined
\* and isDecrypted is false.
C36_ResetClearsDistance ==
  [][\A i \in ResetCalls :
       ResetCompletes(i)
         => /\ hook'.encryptedDistance = Undefined
            /\ hook'.decryptedDistance = Undefined
            /\ ~hook'.isDecrypted]_allVars

\* The cells of the grid whose Manhattan distance to (sx, sy) is d.
CellsAt(d, sx, sy) ==
  {g \in (0..(GridSize - 1)) \X (0..(GridSize - 1)) : Manhattan(g[1], g[2], sx, sy) = d}

\* C37: every stored distance is the Manhattan distance between its
\* player's latest guess and the secret in force.  When createTreasure
\* replaces the secret, a stored distance that was the distance of some
\* cell to the previous secret is the distance of such a cell to the new
\* secret: no player keeps a distance computed against the previous one.
C37_DistanceAgainstCurrentSecret ==
  [][Succeeded("createTreasure")
       => \A p \in Principals :
            LET d == Value(userDistances[p])
                latest == CellsAt(d, Value(secretX), Value(secretY))
            IN  (userDistances'[p] # EmptyHandle /\ latest # {})
                  => latest \cap CellsAt(d, ciphertexts'[secretX'], ciphertexts'[secretY']) # {}]_vars

\* The Manhattan distances the cells of the grid have to (sx, sy).
DistancesTo(sx, sy) ==
  {Manhattan(g[1], g[2], sx, sy) : g \in (0..(GridSize - 1)) \X (0..(GridSize - 1))}

\* C38: in the part_002 contract userDistances[p] is written only by a
\* guess of p, and what is written is a Manhattan distance to the secret;
\* no other call, guessSimple included, stores anything there.
C38_OnlyGuessStoresDistances ==
  [][variant = "select"
       => \A p \in Principals :
            userDistances'[p] # userDistances[p]
              => /\ lastCall'.op = "guess"
                 /\ lastCall'.sender = p
                 /\ ciphertexts'[userDistances'[p]]
                      \in DistancesTo(Value(secretX), Value(secretY))]_vars

\* C39: the handles guess reads from storage, secretX and secretY, are
\* handles the contract holds a persistent permission on, granted when
\* createTreasure made them, so that a guess of a later transaction may
\* compute on them.
C39_SecretHandlesPermitted ==
  isTreasureSet => {<<secretX, This>>, <<secretY, This>>} \subseteq allowed

\* C35: isOwner tracks the current signer.  Once the hook has rendered
\* with the current signer and no ownership check is in flight, isOwner
\* tells whether that signer is the contract's owner, whatever the order
\* in which the checks made for earlier signers completed.
C35_IsOwnerTracksSigner ==
  (/\ hook.ethersSigner # None
   /\ rendered.ethersSigner = hook.ethersSigner
   /\ ownership = {})
    => hook.isOwner = (hook.ethersSigner = Owner)

\* C33: in the older hook, with the contract deployed and nothing done by
\* the user, the automatic refresh quiesces: from some point on isRefreshing
\* stays false and canRefresh true.
C33_AutoRefreshQuiesces ==
  <>[](~hook.isRefreshing /\ memo["canRefresh"])

====
